---------------------------- MODULE Spec2Model ----------------------------
(***************************************************************************)
(* A model of the Wavefront OBJ/MTL loader of src/include/loaders/obj.h.   *)
(*                                                                         *)
(* A C string is a sequence of one-character strings; a cursor into it is  *)
(* an index 1..Len(s)+1, where Len(s)+1 is the position of the terminating *)
(* NUL; the bytes of a buffer that follow a NUL are part of the sequence,   *)
(* as "NUL" and what comes after it, and outside the sequence every byte   *)
(* reads as NUL.  A float is the pair <<m, e>> that stands for m * 2^e, m  *)
(* being odd, or one of ZeroReal, NegZero, NaNReal, Infinity(1) and        *)
(* Infinity(-1); a double is a record [sign, m, e] that stands for         *)
(* sign * m * 2^e, where m is a natural number written to the base 2^15.   *)
(* A std::string that only collects messages (err, warning) is the         *)
(* sequence of the messages appended to it.                                *)
(***************************************************************************)
EXTENDS Integers, Sequences, FiniteSets, TLC

(***************************************************************************)
(* Characters and the C string primitives the scanners use.                *)
(***************************************************************************)
NUL == "NUL"
SP == " "
TAB == "\t"
CR == "\r"
LF == "\n"
FF == "\f"
\* the vertical tab 0x0B, which no string of the notation holds
VT == "VT"

\* what a read of an object or of a byte that was never written gives
Indeterminate == "indeterminate"

Digits == <<"0", "1", "2", "3", "4", "5", "6", "7", "8", "9">>

IS_SPACE(x) == x = SP \/ x = TAB

IS_DIGIT(x) == \E d \in 1..10 : Digits[d] = x

IS_NEW_LINE(x) == x = CR \/ x = LF \/ x = NUL

DigitVal(x) == (CHOOSE d \in 1..10 : Digits[d] = x) - 1

\* s[i] of a C string: the byte at the cursor, NUL at the end
At(s, i) == IF i >= 1 /\ i <= Len(s) THEN s[i] ELSE NUL

\* the number of bytes from the cursor to the first that is NUL or whose
\* being in the set `bytes` is not `in`
Span(s, i, bytes, in) ==
    IF i < 1 \/ i > Len(s) THEN 0
    ELSE (CHOOSE j \in i..(Len(s) + 1) :
              /\ At(s, j) = NUL \/ (At(s, j) \in bytes) /= in
              /\ \A k \in i..(j - 1) : At(s, k) /= NUL /\ (At(s, k) \in bytes) = in) - i

\* strlen(s + i - 1)
strlen(s, i) == Span(s, i, {}, FALSE)

\* const char *token as a std::string: the bytes from the cursor to the NUL
Rest(s, i) == SubSeq(s, i, i + strlen(s, i) - 1)

strspn(s, i, accept) == Span(s, i, accept, TRUE)

strcspn(s, i, reject) == Span(s, i, reject, FALSE)

\* 0 == strncmp(token, p, Len(p))
strncmp0(s, i, p) == \A k \in 1..Len(p) : At(s, i + k - 1) = p[k]

\* the digit loop of strtol: the unsigned long acc is four 16-bit limbs,
\* lowest first, and over says that it passed ULONG_MAX
RECURSIVE atoiDigits(_, _, _)
atoiDigits(s, i, acc) ==
    IF IS_DIGIT(At(s, i))
    THEN LET x0 == acc.limb[1] * 10 + DigitVal(At(s, i))
             x1 == acc.limb[2] * 10 + x0 \div 65536
             x2 == acc.limb[3] * 10 + x1 \div 65536
             x3 == acc.limb[4] * 10 + x2 \div 65536
         IN  atoiDigits(s, i + 1,
                        [limb |-> <<x0 % 65536, x1 % 65536, x2 % 65536, x3 % 65536>>,
                         over |-> acc.over \/ x3 >= 65536])
    ELSE acc

\* (int) of the long strtol returns for the digits acc: LONG_MAX or LONG_MIN
\* when acc is out of range, and of the 64 bits the low 32 are kept
atoiValue(acc, negative) ==
    LET lo == acc.limb[1]
        hi == acc.limb[2]
        int(h, l) == IF h >= 32768 THEN (h - 65536) * 65536 + l ELSE h * 65536 + l
        beyond == \/ acc.over
                  \/ acc.limb[4] > 32768
                  \/ acc.limb[4] = 32768 /\ (~negative \/ lo + hi + acc.limb[3] > 0)
    IN  IF beyond THEN (IF negative THEN 0 ELSE 0 - 1)
        ELSE IF ~negative THEN int(hi, lo)
        ELSE IF lo = 0 THEN int((65536 - hi) % 65536, 0)
        ELSE int(65535 - hi, 65536 - lo)

\* atoi once the white space is skipped
atoiAt(s, j) ==
    LET zero == [limb |-> <<0, 0, 0, 0>>, over |-> FALSE]
    IN  IF At(s, j) = "-" THEN atoiValue(atoiDigits(s, j + 1, zero), TRUE)
        ELSE IF At(s, j) = "+" THEN atoiValue(atoiDigits(s, j + 1, zero), FALSE)
        ELSE atoiValue(atoiDigits(s, j, zero), FALSE)

\* atoi skips what isspace() accepts
atoi(s, i) == atoiAt(s, i + strspn(s, i, {SP, TAB, LF, VT, FF, CR}))

\* acc * 10 + d in an int, the 32 bits kept
IntTimes10Plus(acc, d) ==
    LET lo == (acc % 65536) * 10 + d
        hi == (((acc \div 65536) % 65536) * 10 + lo \div 65536) % 65536
    IN  IF hi >= 32768 THEN (hi - 65536) * 65536 + (lo % 65536)
        ELSE hi * 65536 + (lo % 65536)

fixIndex(idx, n) ==
    IF idx > 0 THEN idx - 1
    ELSE IF idx = 0 THEN 0
    ELSE n + idx



(***************************************************************************)
(* Natural numbers of any size: the sequence of the digits to the base     *)
(* 2^15, lowest first and the highest not zero; zero is <<>>.              *)
(***************************************************************************)
Limb(a, i) == IF 1 <= i /\ i <= Len(a) THEN a[i] ELSE 0

\* x, 0 <= x < 2^31
BigOf(x) ==
    IF x = 0 THEN <<>>
    ELSE IF x < 32768 THEN <<x>>
    ELSE IF x \div 32768 < 32768 THEN <<x % 32768, x \div 32768>>
    ELSE <<x % 32768, (x \div 32768) % 32768, (x \div 32768) \div 32768>>

\* a below 2^30 as an integer
IntOf(a) == Limb(a, 1) + 32768 * Limb(a, 2)

RECURSIVE BigTrim(_)
BigTrim(a) ==
    IF Len(a) > 0 /\ a[Len(a)] = 0 THEN BigTrim(SubSeq(a, 1, Len(a) - 1)) ELSE a

\* the digit and the carry of x
BigDigit(x) == [s |-> <<x % 32768>>, c |-> x \div 32768]

\* the digits s with the digits and the carry of h above them
BigJoin(s, h) == [s |-> s \o h.s, c |-> h.c]

\* the digits lo..hi of a * k + sign * b and the carry out of them, for the
\* carry that comes in; BigSumHigh takes the lower half l as computed
RECURSIVE BigSumOver(_, _, _, _, _, _, _)
BigSumHigh(a, k, b, sign, lo, hi, l) ==
    BigJoin(l.s, BigSumOver(a, k, b, sign, lo, hi, l.c))

BigSumOver(a, k, b, sign, lo, hi, carry) ==
    IF lo = hi
    THEN BigDigit(Limb(a, lo) * k + sign * Limb(b, lo) + carry)
    ELSE BigSumHigh(a, k, b, sign, (lo + hi) \div 2 + 1, hi,
                    BigSumOver(a, k, b, sign, lo, (lo + hi) \div 2, carry))

\* the digits r.s with the carry r.c as the highest
BigCarry(r) == IF r.c = 0 THEN BigTrim(r.s) ELSE Append(r.s, r.c)

\* a * k + sign * b, which is not below zero, for 0 <= k < 2^15
BigSum(a, k, b, sign) ==
    IF Len(a) = 0 /\ Len(b) = 0 THEN <<>>
    ELSE BigCarry(BigSumOver(a, k, b, sign, 1,
                             IF Len(a) > Len(b) THEN Len(a) ELSE Len(b), 0))

BigAdd(a, b) == BigSum(a, 1, b, 1)

\* a - b, for a >= b
BigSub(a, b) == BigSum(a, 1, b, 0 - 1)

\* a * k, for 0 <= k < 2^15
BigTimes(a, k) == BigSum(a, k, <<>>, 0)

\* a * 2^n
BigShl(a, n) ==
    BigTrim([i \in 1..(IF Len(a) = 0 THEN 0 ELSE Len(a) + (n \div 15) + 1) |->
                ((Limb(a, i - (n \div 15)) * 2^(n % 15)) % 32768)
                    + (Limb(a, i - (n \div 15) - 1) \div 2^(15 - (n % 15)))])

\* a \div 2^n
BigShr(a, n) ==
    IF Len(a) <= n \div 15 THEN <<>>
    ELSE BigTrim([i \in 1..(Len(a) - (n \div 15)) |->
                     (a[i + (n \div 15)] \div 2^(n % 15))
                         + (Limb(a, i + (n \div 15) + 1) % 2^(n % 15)) * 2^(15 - (n % 15))])

\* the binary digit of a that counts 2^i
Bit(a, i) == (Limb(a, (i \div 15) + 1) \div 2^(i % 15)) % 2

\* whether a has a binary digit 1 that counts less than 2^i
BitsBelow(a, i) ==
    \E j \in 1..Len(a) :
        IF 15 * j <= i THEN a[j] /= 0
        ELSE 15 * (j - 1) < i /\ a[j] % 2^(i - 15 * (j - 1)) /= 0

\* the number of binary digits of a
BigBits(a) ==
    IF Len(a) = 0 THEN 0
    ELSE 15 * (Len(a) - 1)
             + (CHOOSE n \in 1..15 : a[Len(a)] < 2^n /\ a[Len(a)] >= 2^(n - 1))

\* the digits lo..hi of a and b compared, the highest first
RECURSIVE BigCmpOver(_, _, _, _)
BigCmpOver(a, b, lo, hi) ==
    IF lo = hi
    THEN (IF a[lo] > b[lo] THEN 1 ELSE IF a[lo] < b[lo] THEN 0 - 1 ELSE 0)
    ELSE IF BigCmpOver(a, b, (lo + hi) \div 2 + 1, hi) /= 0
    THEN BigCmpOver(a, b, (lo + hi) \div 2 + 1, hi)
    ELSE BigCmpOver(a, b, lo, (lo + hi) \div 2)

\* a < b: -1, a = b: 0, a > b: 1
BigCmp(a, b) ==
    IF Len(a) > Len(b) THEN 1
    ELSE IF Len(a) < Len(b) THEN 0 - 1
    ELSE IF Len(a) = 0 THEN 0
    ELSE BigCmpOver(a, b, 1, Len(a))

\* a * (b[lo] + ... + b[hi] * 2^(15 * (hi - lo)))
RECURSIVE BigMulOver(_, _, _, _)
BigMulOver(a, b, lo, hi) ==
    IF lo = hi THEN BigTimes(a, b[lo])
    ELSE BigAdd(BigMulOver(a, b, lo, (lo + hi) \div 2),
                BigShl(BigMulOver(a, b, (lo + hi) \div 2 + 1, hi),
                       15 * ((lo + hi) \div 2 + 1 - lo)))

BigMul(a, b) == IF Len(a) = 0 \/ Len(b) = 0 THEN <<>> ELSE BigMulOver(a, b, 1, Len(b))

\* h * h
BigSquare(h) == BigMul(h, h)

\* b^n, for b < 2^15
RECURSIVE BigPow(_, _)
BigPow(b, n) ==
    IF n = 0 THEN <<1>>
    ELSE IF n % 2 = 1 THEN BigTimes(BigPow(b, n - 1), b)
    ELSE BigSquare(BigPow(b, n \div 2))

\* the next binary digit of r / d, r2 being r * 2, and what is left
BigDivBit(r2, d) ==
    IF BigCmp(r2, d) >= 0 THEN [q |-> <<1>>, r |-> BigSub(r2, d)]
    ELSE [q |-> <<>>, r |-> r2]

\* the digits h.q with the n digits l.q below them
BigDivJoin(h, l, n) == [q |-> BigAdd(BigShl(h, n), l.q), r |-> l.r]

\* the next n binary digits of r / d, for r < d, and what is left of r;
\* BigDivLow takes the higher half h as computed
RECURSIVE BigDivBits(_, _, _)
BigDivLow(h, d, n) == BigDivJoin(h.q, BigDivBits(h.r, d, n), n)

BigDivBits(r, d, n) ==
    IF n = 1 THEN BigDivBit(BigShl(r, 1), d)
    ELSE BigDivLow(BigDivBits(r, d, n \div 2), d, n - n \div 2)

(***************************************************************************)
(* Binary floating point.  A size is [m, e] for m * 2^e; with m = <<>>, e  *)
(* is 0 for zero, 1 for a NaN and 2 for an infinity.                       *)
(***************************************************************************)
SizeZero == [m |-> <<>>, e |-> 0]
SizeNaN == [m |-> <<>>, e |-> 1]
SizeInf == [m |-> <<>>, e |-> 2]

\* r * 2^t, which is an infinity from 2^emax on
RoundEnd(r, t, emax) ==
    IF Len(r) = 0 THEN SizeZero
    ELSE IF BigBits(r) + t > emax THEN SizeInf
    ELSE [m |-> r, e |-> t]

\* m * 2^e with the binary digits that count less than 2^t rounded away,
\* to the nearest and a tie to even
RoundAt(m, e, more, t, emax) ==
    IF t <= e THEN RoundEnd(m, e, emax)
    ELSE RoundEnd(BigAdd(BigShr(m, t - e),
                         IF Bit(m, t - e - 1) = 1
                                /\ (more \/ Bit(m, t - e) = 1 \/ BitsBelow(m, t - e - 1))
                         THEN <<1>> ELSE <<>>),
                  t, emax)

\* m * 2^e rounded to the nearest size of p binary digits, ties to even,
\* whose last digit counts 2^emin or more and that is below 2^emax; more
\* says that the number is a little above m * 2^e
RoundBits(m, e, more, p, emin, emax) ==
    RoundAt(m, e, more,
            IF e + BigBits(m) - p > emin THEN e + BigBits(m) - p ELSE emin, emax)

\* the nearest double
DoubleRound(m, e, more) == RoundBits(m, e, more, 53, 0 - 1074, 1024)

\* x * y in double
DoubleTimes(x, y) ==
    IF x = SizeNaN \/ y = SizeNaN THEN SizeNaN
    ELSE IF x = SizeInf \/ y = SizeInf
    THEN (IF x = SizeZero \/ y = SizeZero THEN SizeNaN ELSE SizeInf)
    ELSE DoubleRound(BigMul(x.m, y.m), x.e + y.e, FALSE)

\* x + y for x = p * 2^e and y = q * 2^e
DoubleSum(x, y, p, q, e) ==
    IF x = SizeNaN \/ y = SizeNaN THEN SizeNaN
    ELSE IF x = SizeInf \/ y = SizeInf THEN SizeInf
    ELSE DoubleRound(BigAdd(p, q), e, FALSE)

\* x + y in double, neither below zero
DoublePlus(x, y) ==
    DoubleSum(x, y, BigShl(x.m, IF x.e < y.e THEN 0 ELSE x.e - y.e),
              BigShl(y.m, IF x.e < y.e THEN y.e - x.e ELSE 0),
              IF x.e < y.e THEN x.e ELSE y.e)

\* static_cast<double>(i) of an int i >= 0
DoubleOfInt(i) == [m |-> BigOf(i), e |-> 0]

\* the double nearest to r.q * 2^e, and a little more where r.r is not zero
RoundQuotient(r, e) == DoubleRound(r.q, e, Len(r.r) > 0)

\* the double nearest to 1 / d
Reciprocal(d) ==
    IF d = <<1>> THEN [m |-> d, e |-> 0]
    ELSE RoundQuotient(BigDivBits(BigShl(<<1>>, BigBits(d) - 1), d, 64),
                       0 - 63 - BigBits(d))

\* what the C library gives for b^n where x is the double nearest to it
PowFix(x, b, n) ==
    IF b = 5 /\ n = 210 THEN [m |-> BigAdd(x.m, <<1>>), e |-> x.e] ELSE x

\* the double nearest to p, or to 1 / p where n < 0
PowOf(p, n) == IF n >= 0 THEN DoubleRound(p, 0, FALSE) ELSE Reciprocal(p)

\* std::pow(b, n) for b = 5.0 or 10.0 and an int n
pow(b, n) ==
    IF n > 1024 \div (BigBits(<<b>>) - 1) THEN SizeInf
    ELSE IF n <= 0 - (1076 \div (BigBits(<<b>>) - 1)) - 1 THEN SizeZero
    ELSE PowFix(PowOf(BigPow(b, IF n >= 0 THEN n ELSE 0 - n), n), b, n)

\* std::ldexp(x, n)
ldexp(x, n) == IF Len(x.m) = 0 THEN x ELSE DoubleRound(x.m, x.e + n, FALSE)

(***************************************************************************)
(* Floats: <<m, e>> for m * 2^e with m odd; the pairs with m = 0 are the   *)
(* two zeros, the NaN and the two infinities.                              *)
(***************************************************************************)
RECURSIVE Real(_, _)
Real(m, e) ==
    IF m = 0 THEN <<0, 0>>
    ELSE IF m % 2 = 0 THEN Real(m \div 2, e + 1)
    ELSE <<m, e>>

ZeroReal == <<0, 0>>
OneReal == <<1, 0>>
NaNReal == <<0, 1>>
Infinity(sign) == IF sign < 0 THEN <<0, 3>> ELSE <<0, 2>>
NegZero == <<0, 4>>

\* the float that sign * x is, x being a size of 24 binary digits
FloatRound(sign, x) ==
    IF x = SizeNaN THEN NaNReal
    ELSE IF x = SizeInf THEN Infinity(sign)
    ELSE IF x = SizeZero THEN (IF sign < 0 THEN NegZero ELSE ZeroReal)
    ELSE Real(sign * IntOf(x.m), x.e)

\* the float nearest to sign * m * 2^e
FloatOf(sign, m, e) == FloatRound(sign, RoundBits(m, e, FALSE, 24, 0 - 149, 128))

\* static_cast<float>(x) of a double x
ToFloat(x) ==
    IF Len(x.m) = 0 THEN FloatRound(x.sign, [m |-> x.m, e |-> x.e])
    ELSE FloatOf(x.sign, x.m, x.e)

\* the double that a float is
DoubleOf(f) ==
    IF f[1] /= 0 THEN [sign |-> IF f[1] < 0 THEN 0 - 1 ELSE 1,
                       m |-> BigOf(IF f[1] < 0 THEN 0 - f[1] ELSE f[1]), e |-> f[2]]
    ELSE IF f = NaNReal THEN [sign |-> 1, m |-> <<>>, e |-> 1]
    ELSE IF f = Infinity(1) THEN [sign |-> 1, m |-> <<>>, e |-> 2]
    ELSE IF f = Infinity(0 - 1) THEN [sign |-> 0 - 1, m |-> <<>>, e |-> 2]
    ELSE [sign |-> IF f = NegZero THEN 0 - 1 ELSE 1, m |-> <<>>, e |-> 0]

\* the float nearest to sx * p * 2^e - sy * q * 2^e
FloatDiff(sx, p, sy, q, e) ==
    IF sx /= sy THEN FloatOf(sx, BigAdd(p, q), e)
    ELSE IF BigCmp(p, q) = 0 THEN ZeroReal
    ELSE IF BigCmp(p, q) > 0 THEN FloatOf(sx, BigSub(p, q), e)
    ELSE FloatOf(0 - sx, BigSub(q, p), e)

\* x - y in float, for two doubles that are floats, neither zero
DoubleDiff(x, y) ==
    FloatDiff(x.sign, BigShl(x.m, IF x.e < y.e THEN 0 ELSE x.e - y.e),
              y.sign, BigShl(y.m, IF x.e < y.e THEN y.e - x.e ELSE 0),
              IF x.e < y.e THEN x.e ELSE y.e)

\* a - b in float
RealSub(a, b) ==
    IF a = NaNReal \/ b = NaNReal THEN NaNReal
    ELSE IF a[1] = 0 /\ a[2] \in {2, 3}
    THEN (IF b = a THEN NaNReal ELSE a)
    ELSE IF b[1] = 0 /\ b[2] \in {2, 3} THEN Infinity(IF b = Infinity(1) THEN 0 - 1 ELSE 1)
    ELSE IF a[1] = 0 /\ b[1] = 0
    THEN (IF a = NegZero /\ b = ZeroReal THEN NegZero ELSE ZeroReal)
    ELSE IF b[1] = 0 THEN a
    ELSE IF a[1] = 0 THEN <<0 - b[1], b[2]>>
    ELSE DoubleDiff(DoubleOf(a), DoubleOf(b))
(***************************************************************************)
(* Numeric token scanner.  The operators below follow tryParseDouble from  *)
(* one label or loop to the next; each takes what the code before it has   *)
(* computed.                                                               *)
(***************************************************************************)
\* where a digit loop that starts at curr stops: at s_end or at the
\* first byte that is no digit
DigitsEnd(s, curr, s_end) ==
    CHOOSE j \in curr..s_end :
        /\ j = s_end \/ ~IS_DIGIT(At(s, j))
        /\ \A k \in curr..(j - 1) : IS_DIGIT(At(s, k))

\* mantissa *= 10; mantissa += digit, for the digits from lo to hi; a
\* mantissa that is an infinity stays one
RECURSIVE IntegerDigits(_, _, _, _)
IntegerDigits(s, lo, hi, mantissa) ==
    IF lo > hi \/ mantissa = SizeInf THEN mantissa
    ELSE IF lo = hi
    THEN DoublePlus(DoubleTimes(mantissa, DoubleOfInt(10)), DoubleOfInt(DigitVal(At(s, lo))))
    ELSE IntegerDigits(s, (lo + hi) \div 2 + 1, hi,
                       IntegerDigits(s, lo, (lo + hi) \div 2, mantissa))

\* the digit loop of the integer part: while (end_not_reached &&
\* IS_DIGIT(*curr)), with what it leaves in curr, mantissa and read
ScanDigits(s, curr, s_end, acc, read) ==
    [curr |-> DigitsEnd(s, curr, s_end),
     acc |-> IntegerDigits(s, curr, DigitsEnd(s, curr, s_end) - 1, acc),
     read |-> read + DigitsEnd(s, curr, s_end) - curr]

\* static const double pow_lut[]: the doubles nearest to 1.0, 0.1, ...,
\* 0.0000001
pow_lut == [i \in 0..7 |-> Reciprocal(BigPow(10, i))]

\* mantissa += digit * (read < lut_entries ? pow_lut[read] :
\* std::pow(10.0, -read)), for the digits from lo to hi, read being first
\* for the digit at lo; a digit 0 adds 0.0
RECURSIVE FractionDigits(_, _, _, _, _)
FractionDigits(s, lo, hi, mantissa, first) ==
    IF lo > hi \/ mantissa = SizeInf THEN mantissa
    ELSE IF lo = hi /\ At(s, lo) = "0" THEN mantissa
    ELSE IF lo = hi
    THEN DoublePlus(mantissa, DoubleTimes(DoubleOfInt(DigitVal(At(s, lo))),
                                          IF first < 8 THEN pow_lut[first]
                                          ELSE pow(10, 0 - first)))
    ELSE FractionDigits(s, (lo + hi) \div 2 + 1, hi,
                        FractionDigits(s, lo, (lo + hi) \div 2, mantissa, first),
                        first + (lo + hi) \div 2 + 1 - lo)

\* the digit loop of the fraction, which read = 1 goes before
ScanFraction(s, curr, s_end, acc, read) ==
    [curr |-> DigitsEnd(s, curr, s_end),
     acc |-> FractionDigits(s, curr, DigitsEnd(s, curr, s_end) - 1, acc, read),
     read |-> read + DigitsEnd(s, curr, s_end) - curr]

\* the digit loop of the exponent: int exponent keeps its 32 bits
RECURSIVE ScanExponent(_, _, _, _, _)
ScanExponent(s, curr, s_end, acc, read) ==
    IF curr /= s_end /\ IS_DIGIT(At(s, curr))
    THEN ScanExponent(s, curr + 1, s_end, IntTimes10Plus(acc, DigitVal(At(s, curr))), read + 1)
    ELSE [curr |-> curr, acc |-> acc, read |-> read]

\* the fail label: *result is left as it was
ParseFail == [ok |-> FALSE, val |-> [sign |-> 1, m |-> <<>>, e |-> 0]]

\* the assemble label: (sign == '+' ? 1 : -1) * (exponent ?
\* std::ldexp(mantissa * std::pow(5.0, exponent), exponent) : mantissa)
Assemble(sign, mantissa, exponent) ==
    [ok |-> TRUE,
     val |-> [sign |-> sign]
                 @@ (IF exponent /= 0
                     THEN ldexp(DoubleTimes(mantissa, pow(5, exponent)), exponent)
                     ELSE mantissa)]

\* after the digit loop of the exponent, ex being what it scanned:
\* exponent *= (exp_sign == '+' ? 1 : -1); if (read == 0) goto fail
AfterExponent(ex, exp_sign) ==
    [ok |-> ex.read /= 0,
     exponent |-> IF exp_sign < 0 /\ ex.acc = (0 - 32768) * 65536 THEN ex.acc
                  ELSE exp_sign * ex.acc]

\* the exponent part, curr being where the fraction ended: what it leaves
\* in exponent, and whether it fails
ParseExponent(s, curr, s_end) ==
    IF curr = s_end \/ At(s, curr) \notin {"e", "E"} THEN [ok |-> TRUE, exponent |-> 0]
    ELSE IF curr + 1 /= s_end /\ At(s, curr + 1) \in {"+", "-"}
    THEN AfterExponent(ScanExponent(s, curr + 2, s_end, 0, 0),
                       IF At(s, curr + 1) = "-" THEN 0 - 1 ELSE 1)
    ELSE IF IS_DIGIT(At(s, curr + 1))
    THEN AfterExponent(ScanExponent(s, curr + 1, s_end, 0, 0), 1)
    ELSE [ok |-> FALSE, exponent |-> 0]

\* after the fraction, fp being what its digit loop left and ex what the
\* exponent part did
AfterFraction(fp, ex, sign) ==
    IF ex.ok THEN Assemble(sign, fp.acc, ex.exponent) ELSE ParseFail

\* after the digit loop of the integer part, ip being what it scanned, fp is
\* what the digit loop of a fraction leaves
AfterInteger(s, ip, fp, s_end, sign) ==
    IF ip.read = 0 THEN ParseFail
    ELSE AfterFraction(fp, ParseExponent(s, fp.curr, s_end), sign)

\* the fraction, ip being what the integer part left: curr++; read = 1 and
\* the digit loop, where a '.' stands
ParseFraction(s, ip, s_end) ==
    IF ip.curr /= s_end /\ At(s, ip.curr) = "."
    THEN ScanFraction(s, ip.curr + 1, s_end, ip.acc, 1)
    ELSE ip

\* after the sign, curr standing on the first digit
AfterSign(s, ip, s_end, sign) ==
    AfterInteger(s, ip, ParseFraction(s, ip, s_end), s_end, sign)

tryParseDouble(s, s_begin, s_end) ==
    IF s_begin >= s_end THEN ParseFail
    ELSE IF At(s, s_begin) \notin {"+", "-"} /\ ~IS_DIGIT(At(s, s_begin)) THEN ParseFail
    ELSE AfterSign(s, ScanDigits(s, IF At(s, s_begin) \in {"+", "-"} THEN s_begin + 1
                                    ELSE s_begin, s_end, SizeZero, 0),
                   s_end, IF At(s, s_begin) = "-" THEN 0 - 1 ELSE 1)

\* the end of parseReal: r is what tryParseDouble returned, the cursor moves to end
RealResult(r, default_value, end) ==
    [val |-> ToFloat(IF r.ok THEN r.val ELSE DoubleOf(default_value)), token |-> end]

\* the end of parseReal with the cursor left where a rejected token starts
RealResultStay(r, default_value, token, end) ==
    [val |-> RealResult(r, default_value, end).val, token |-> IF r.ok THEN end ELSE token]

RealTokenStay(s, token, end, default_value) ==
    RealResultStay(tryParseDouble(s, token, end), default_value, token, end)

\* parseReal once the blanks are skipped: the token is [token, end)
RealToken(s, token, end, default_value) ==
    RealResult(tryParseDouble(s, token, end), default_value, end)

\* the token that starts at the cursor ends at the next blank, CR or NUL
TokenEnd(s, token) == token + strcspn(s, token, {SP, TAB, CR})

\* the cursor left on the blanks before the token
SkipNothing(s, token) == token

\* (*token) += strspn((*token), " \t")
SkipBlanks(s, token) == token + strspn(s, token, {SP, TAB})

RealAt(s, token, default_value) == RealToken(s, token, TokenEnd(s, token), default_value)

parseReal(s, token, default_value) == RealAt(s, SkipBlanks(s, token), default_value)

Real2Result(x, y) == [x |-> x.val, y |-> y.val, token |-> y.token]

Real2Second(s, x, default_y) == Real2Result(x, parseReal(s, x.token, default_y))

parseReal2(s, token, default_x, default_y) ==
    Real2Second(s, parseReal(s, token, default_x), default_y)

Real3Result(x, y, z) == [x |-> x.val, y |-> y.val, z |-> z.val, token |-> z.token]

Real3Third(s, x, y, default_z) == Real3Result(x, y, parseReal(s, y.token, default_z))

Real3Second(s, x, default_y, default_z) ==
    Real3Third(s, x, parseReal(s, x.token, default_y), default_z)

parseReal3(s, token, default_x, default_y, default_z) ==
    Real3Second(s, parseReal(s, token, default_x), default_y, default_z)

IntAt(s, token) == [val |-> atoi(s, token), token |-> TokenEnd(s, token)]

parseInt(s, token) == IntAt(s, SkipBlanks(s, token))

(***************************************************************************)
(* Face vertex references.  parseTriple is followed from one test of the   *)
(* cursor to the next.                                                     *)
(***************************************************************************)
\* struct vertex_index
vertex_index(vidx, vtidx, vnidx) == [v_idx |-> vidx, vt_idx |-> vtidx, vn_idx |-> vnidx]

TripleResult(vi, token) == [vi |-> vi, token |-> token]

\* the cursor left where the index starts
IndexStay(s, token) == token

\* (*token) += strcspn((*token), "/ \t\r")
IndexEnd(s, token) == token + strcspn(s, token, {"/", SP, TAB, CR})

\* the cursor stands on the normal index
TripleNormal(s, token, v_idx, vt_idx, vnsize) ==
    TripleResult(vertex_index(v_idx, vt_idx, fixIndex(atoi(s, token), vnsize)),
                 IndexEnd(s, token))

\* the texcoord index is read and the cursor stands after it
TripleAfterTexcoord(s, token, v_idx, vt_idx, vnsize) ==
    IF At(s, token) /= "/"
    THEN TripleResult(vertex_index(v_idx, vt_idx, 0 - 1), token)
    ELSE TripleNormal(s, token + 1, v_idx, vt_idx, vnsize)

\* the cursor stands after the first '/'
TripleAfterSlash(s, token, v_idx, vnsize, vtsize) ==
    IF At(s, token) = "/"
    THEN TripleNormal(s, token + 1, v_idx, 0 - 1, vnsize)
    ELSE TripleAfterTexcoord(s, IndexEnd(s, token), v_idx,
                             fixIndex(atoi(s, token), vtsize), vnsize)

\* the position index is read and the cursor stands after it
TripleAfterPosition(s, token, v_idx, vnsize, vtsize) ==
    IF At(s, token) /= "/"
    THEN TripleResult(vertex_index(v_idx, 0 - 1, 0 - 1), token)
    ELSE TripleAfterSlash(s, token + 1, v_idx, vnsize, vtsize)

\* parseTriple with the normal and texcoord counts taken in each other's place
parseTripleSwapped(s, token, vsize, vnsize, vtsize) ==
    TripleAfterPosition(s, IndexEnd(s, token), fixIndex(atoi(s, token), vsize),
                        vtsize, vnsize)

parseTriple(s, token, vsize, vnsize, vtsize) ==
    TripleAfterPosition(s, IndexEnd(s, token), fixIndex(atoi(s, token), vsize),
                        vnsize, vtsize)

\* one turn of the loop of the f directive, st = [token, face]: parseTriple;
\* push_back; token += strspn(token, " \t\r").  Once the cursor stands on the
\* end of the line the loop has ended and a turn changes nothing.
FaceNext(r, s, face) ==
    [token |-> r.token + strspn(s, r.token, {SP, TAB, CR}), face |-> Append(face, r.vi)]

FaceTurn(s, st, vsize, vnsize, vtsize) ==
    IF IS_NEW_LINE(At(s, st.token)) THEN st
    ELSE FaceNext(parseTriple(s, st.token, vsize, vnsize, vtsize), s, st.face)

\* n turns of the loop, as the first half of them followed by the rest
RECURSIVE FaceTurns(_, _, _, _, _, _)
\* the turns that follow the first half: none once the loop has ended
FaceRest(s, st, n, vsize, vnsize, vtsize) ==
    IF IS_NEW_LINE(At(s, st.token)) THEN st
    ELSE FaceTurns(s, st, n, vsize, vnsize, vtsize)

FaceTurns(s, st, n, vsize, vnsize, vtsize) ==
    IF n <= 1 THEN FaceTurn(s, st, vsize, vnsize, vtsize)
    ELSE FaceRest(s, FaceTurns(s, st, n \div 2, vsize, vnsize, vtsize),
                  n - (n \div 2), vsize, vnsize, vtsize)

\* while (!IS_NEW_LINE(token[0])): every turn moves the cursor forward, so
\* the loop has ended after Len(s) turns
ParseFace(s, token, vsize, vnsize, vtsize, face) ==
    FaceTurns(s, [token |-> token, face |-> face], Len(s), vsize, vnsize, vtsize).face

(***************************************************************************)
(* Shapes.                                                                 *)
(***************************************************************************)
\* unsigned char holds values modulo this
UCharRange == 256

EmptyMesh == [indices |-> <<>>, num_face_vertices |-> <<>>,
              material_ids |-> <<>>, tags |-> <<>>]

\* shape_t()
EmptyShape == [name |-> <<>>, mesh |-> EmptyMesh]

index_t(vi) == [vertex_index |-> vi.v_idx, normal_index |-> vi.vn_idx,
                texcoord_index |-> vi.vt_idx]

\* for (size_t k = 2; k < npolys; k++) { i1 = i2; i2 = face[k]; three
\* push_back }: turn k pushes face[0], face[k - 1], face[k] of the source,
\* which are face[1], face[k], face[k + 1] here
FanCorner(face, k, c) ==
    IF c = 0 THEN face[1] ELSE IF c = 1 THEN face[k] ELSE face[k + 1]

TriangleFan(mesh, face, material_id) ==
    [mesh EXCEPT !.indices = @ \o [j \in 1..(3 * (Len(face) - 2)) |->
                                     index_t(FanCorner(face, 2 + ((j - 1) \div 3), (j - 1) % 3))],
                 !.num_face_vertices = @ \o [j \in 1..(Len(face) - 2) |-> 3],
                 !.material_ids = @ \o [j \in 1..(Len(face) - 2) |-> material_id]]

\* the polygon kept as it is
PushPolygon(mesh, face, material_id) ==
    [mesh EXCEPT !.indices = @ \o [k \in 1..Len(face) |-> index_t(face[k])],
                 !.num_face_vertices = Append(@, Len(face) % UCharRange),
                 !.material_ids = Append(@, material_id)]

\* One face of the group.  i0 = face[0] and i2 = face[1] are read before the
\* vertex count is looked at; for a face of fewer than two corners these reads
\* are out of bounds, and their values are never used (no triangle is built
\* from fewer than three corners).
ExportFace(mesh, face, material_id, triangulate) ==
    IF triangulate
    THEN IF Len(face) >= 3
         THEN TriangleFan(mesh, face, material_id)
         ELSE mesh
    ELSE PushPolygon(mesh, face, material_id)

RECURSIVE ExportFaces(_, _, _, _, _)
ExportFaces(mesh, faceGroup, i, material_id, triangulate) ==
    IF i <= Len(faceGroup)
    THEN ExportFaces(ExportFace(mesh, faceGroup[i], material_id, triangulate),
                     faceGroup, i + 1, material_id, triangulate)
    ELSE mesh

\* the export without shape->name = name
exportFaceGroupUnnamed(sh, faceGroup, tgs, material_id, nm, triangulate) ==
    IF faceGroup = <<>>
    THEN [ret |-> FALSE, shape |-> sh]
    ELSE [ret |-> TRUE,
          shape |-> [sh EXCEPT !.mesh = [ExportFaces(sh.mesh, faceGroup, 1, material_id,
                                                     triangulate) EXCEPT !.tags = tgs]]]

exportFaceGroupToShape(sh, faceGroup, tgs, material_id, nm, triangulate) ==
    IF faceGroup = <<>>
    THEN [ret |-> FALSE, shape |-> sh]
    ELSE [ret |-> TRUE,
          shape |-> [name |-> nm,
                     mesh |-> [ExportFaces(sh.mesh, faceGroup, 1, material_id, triangulate)
                                 EXCEPT !.tags = tgs]]]

\* std::getline(ss, item, delim) over the whole string
RECURSIVE SplitString(_, _, _, _)
SplitString(s, i, delim, elems) ==
    IF i > Len(s) THEN elems
    ELSE LET n == strcspn(s, i, {delim})
         IN  SplitString(s, i + n + 1, delim, Append(elems, SubSeq(s, i, i + n - 1)))

(***************************************************************************)
(* The state of a stream-based LoadObj call: its locals, its output        *)
(* parameters and the material reader it was given.                        *)
(***************************************************************************)
VARIABLES
    alphabet,       \* the lines the input stream can deliver
    limit,          \* the longest input stream explored, in lines
    history,        \* whether the lines read are kept in consumed
    consumed,       \* the lines read so far, for the properties that speak of the input
    triangulate,    \* parameter of LoadObj
    readMatFn,      \* "null", "file" (MaterialFileReader) or "stream" (MaterialStreamReader)
    m_mtlBaseDir,   \* MaterialFileReader::m_mtlBaseDir
    fsys,           \* the files that can be opened: path -> lines
    m_inStream,     \* MaterialStreamReader::m_inStream: [state, lines]
    inStream,       \* the stream the call reads: [state, text, pos]; with pos = 0
                    \* the bytes are left open and the lines come from alphabet
    linebuf,        \* the line being handled
    linebuf_data,   \* the bytes of LoadObj's linebuf the call has written: the line,
                    \* its terminator and what is left behind it of the lines before
    nlines,         \* lines read so far
    v, vn, vt,      \* LoadObj locals, swapped into attrib at the end
    tags,
    faceGroup,
    name,
    material_map,
    material,
    shape,
    shapes,         \* output parameter
    materials,      \* output parameter, not cleared by LoadObj
    err,            \* output parameter
    attrib,         \* output parameter
    mtl,            \* locals of a LoadMtl call: [material, has_d, has_tr, ss]
    pc              \* LoadObj: "opening" (file-based entry), "failed" (it returned
                    \* false), "reading", "done" (it returned true), "thrown" (an
                    \* exception left it), "crashed" (a read of memory that is
                    \* not there ended the process);
                    \* LoadMtl: "mtl_reading", "mtl_done"

vars == <<alphabet, limit, history, consumed, triangulate, readMatFn, m_mtlBaseDir, fsys, m_inStream,
          inStream, linebuf, linebuf_data, nlines, v, vn, vt, tags, faceGroup, name,
          material_map, material, shape, shapes, materials, err, attrib, mtl, pc>>

\* what no directive of LoadObj changes
params == <<alphabet, limit, history, triangulate, readMatFn, m_mtlBaseDir>>

(***************************************************************************)
(* The line loop of LoadObj.                                               *)
(***************************************************************************)
\* the two erase() calls after safeGetline
StripEol(line) ==
    LET a == IF Len(line) > 0 /\ line[Len(line)] = LF
             THEN SubSeq(line, 1, Len(line) - 1) ELSE line
    IN  IF Len(a) > 0 /\ a[Len(a)] = CR THEN SubSeq(a, 1, Len(a) - 1) ELSE a

\* token += strspn(token, " \t")
FirstToken(buf) == 1 + strspn(buf, 1, {SP, TAB})

\* the chain of tests of the loop body, in the order of the source
ObjDirective(buf) ==
    LET token == FirstToken(buf)
        c0 == At(buf, token)
        c1 == At(buf, token + 1)
        c2 == At(buf, token + 2)
    IN  IF buf = <<>> \/ c0 = NUL \/ c0 = "#" THEN "skip"
        ELSE IF c0 = "v" /\ IS_SPACE(c1) THEN "v"
        ELSE IF c0 = "v" /\ c1 = "n" /\ IS_SPACE(c2) THEN "vn"
        ELSE IF c0 = "v" /\ c1 = "t" /\ IS_SPACE(c2) THEN "vt"
        ELSE IF c0 = "f" /\ IS_SPACE(c1) THEN "f"
        ELSE IF strncmp0(buf, token, <<"u", "s", "e", "m", "t", "l">>)
                /\ IS_SPACE(At(buf, token + 6)) THEN "usemtl"
        ELSE IF strncmp0(buf, token, <<"m", "t", "l", "l", "i", "b">>)
                /\ IS_SPACE(At(buf, token + 6)) THEN "mtllib"
        ELSE IF c0 = "g" /\ IS_SPACE(c1) THEN "g"
        ELSE IF c0 = "o" /\ IS_SPACE(c1) THEN "o"
        ELSE IF c0 = "t" /\ IS_SPACE(c1) THEN "t"
        ELSE "none"

\* where the bytes that safeGetline appends from the cursor on end: at the
\* first byte of `ends` or behind the last byte of the text, where
\* sbumpc() gives EOF; a byte 0 is a byte like any other
LineEnd(text, pos, ends) ==
    CHOOSE j \in pos..(Len(text) + 1) :
        /\ j > Len(text) \/ text[j] \in ends
        /\ \A k \in pos..(j - 1) : text[k] \notin ends

\* safeGetline without its case '\r'
safeGetlineLf(is, t) ==
    LET j == LineEnd(is.text, is.pos, {LF})
        line == t \o SubSeq(is.text, is.pos, j - 1)
    IN  IF j > Len(is.text)
        THEN [is |-> [is EXCEPT !.pos = j, !.state = IF line = <<>> THEN "eof" ELSE @],
              t |-> line]
        ELSE [is |-> [is EXCEPT !.pos = j + 1], t |-> line]

\* safeGetline(is, t) with t cleared by the caller: the bytes up to the
\* line end are appended to t; case '\n' ends the line, case '\r' ends it
\* and takes the '\n' that follows, case EOF sets eofbit when t is empty
safeGetline(is, t) ==
    LET j == LineEnd(is.text, is.pos, {LF, CR})
        line == t \o SubSeq(is.text, is.pos, j - 1)
    IN  IF j > Len(is.text)
        THEN [is |-> [is EXCEPT !.pos = j, !.state = IF line = <<>> THEN "eof" ELSE @],
              t |-> line]
        ELSE IF is.text[j] = LF
        THEN [is |-> [is EXCEPT !.pos = j + 1], t |-> line]
        ELSE [is |-> [is EXCEPT !.pos = IF j < Len(is.text) /\ is.text[j + 1] = LF
                                        THEN j + 2 ELSE j + 1],
              t |-> line]

\* while (inStream->peek() != -1) safeGetline(*inStream, linebuf): the lines
\* the next turn of a line loop can get, none when the peek gives -1
Offered ==
    IF inStream.state /= "good" THEN {}
    ELSE IF inStream.pos = 0 THEN alphabet
    ELSE IF inStream.pos > Len(inStream.text) THEN {}
    ELSE {safeGetline(inStream, <<>>).t}

\* the peek that gave -1 sets eofbit on a good stream
\* and failbit on any other
Peeked(is) == [is EXCEPT !.state = IF @ = "good" THEN "eof" ELSE "fail"]

\* the stream delivers `line`: what every turn of a line loop does to the input
Delivered(line) ==
    /\ nlines < limit
    /\ nlines' = nlines + 1
    /\ consumed' = IF history THEN Append(consumed, line) ELSE consumed
    /\ inStream' = IF inStream.pos = 0 THEN inStream ELSE safeGetline(inStream, <<>>).is

\* the bytes of linebuf after safeGetline and the two erase() calls, data
\* being its bytes before: t.clear() and t += c write the line and its
\* terminator, erase() moves the terminator, and what lies behind stays
LineData(line, data) ==
    StripEol(line) \o [i \in 1..(Len(line) - Len(StripEol(line)) + 1) |-> NUL]
                   \o SubSeq(data, Len(line) + 2, Len(data))

\* safeGetline delivered `line` and the loop body goes to a directive of D
ReadsLine(line, D) ==
    /\ pc = "reading"
    /\ Delivered(line)
    /\ ObjDirective(StripEol(line)) \in D
    /\ linebuf' = StripEol(line)
    /\ linebuf_data' = LineData(line, linebuf_data)

\* safeGetline delivered `line` and the chain of tests chose a directive of D
Reads(line, D) ==
    /\ ReadsLine(line, D)
    /\ UNCHANGED <<params, pc, attrib, mtl>>

HandleV ==
    \E line \in Offered :
        /\ Reads(line, {"v"})
        /\ LET buf == StripEol(line)
               r == parseReal3(buf, FirstToken(buf) + 2, ZeroReal, ZeroReal, ZeroReal)
           IN  v' = v \o <<r.x, r.y, r.z>>
        /\ UNCHANGED <<vn, vt, tags, faceGroup, name, material_map, material, shape,
                       shapes, materials, err, fsys, m_inStream>>

HandleVn ==
    \E line \in Offered :
        /\ Reads(line, {"vn"})
        /\ LET buf == StripEol(line)
               r == parseReal3(buf, FirstToken(buf) + 3, ZeroReal, ZeroReal, ZeroReal)
           IN  vn' = vn \o <<r.x, r.y, r.z>>
        /\ UNCHANGED <<v, vt, tags, faceGroup, name, material_map, material, shape,
                       shapes, materials, err, fsys, m_inStream>>

HandleVt ==
    \E line \in Offered :
        /\ Reads(line, {"vt"})
        /\ LET buf == StripEol(line)
               r == parseReal2(buf, FirstToken(buf) + 3, ZeroReal, ZeroReal)
           IN  vt' = vt \o <<r.x, r.y>>
        /\ UNCHANGED <<v, vn, tags, faceGroup, name, material_map, material, shape,
                       shapes, materials, err, fsys, m_inStream>>

\* the face an f line gives with the arrays as they are
FaceOf(buf) ==
    LET token == FirstToken(buf) + 2
    IN  ParseFace(buf, token + strspn(buf, token, {SP, TAB}),
                  Len(v) \div 3, Len(vn) \div 3, Len(vt) \div 2, <<>>)

HandleF ==
    \E line \in Offered :
        /\ Reads(line, {"f"})
        /\ faceGroup' = Append(faceGroup, FaceOf(StripEol(line)))
        /\ UNCHANGED <<v, vn, vt, tags, name, material_map, material, shape,
                       shapes, materials, err, fsys, m_inStream>>

\* material_map.find(namebuf), -1 when absent
LookupMaterial(map, namebuf) ==
    IF namebuf \in DOMAIN map THEN map[namebuf] ELSE 0 - 1

\* the flush with the id already changed
UsemtlFlushAhead(sh, fg, tgs, material_id, newMaterialId, nm, tri) ==
    exportFaceGroupToShape(sh, fg, tgs, newMaterialId, nm, tri).shape

\* the flush of the usemtl directive: the pending faces go to the shape
UsemtlFlush(sh, fg, tgs, material_id, newMaterialId, nm, tri) ==
    exportFaceGroupToShape(sh, fg, tgs, material_id, nm, tri).shape

\* the end of the usemtl directive, newMaterialId being what the lookup gave
UsemtlStore(newMaterialId) ==
    IF newMaterialId /= material
    THEN /\ shape' = UsemtlFlush(shape, faceGroup, tags, material, newMaterialId,
                                 name, triangulate)
         /\ faceGroup' = <<>>
         /\ material' = newMaterialId
    ELSE UNCHANGED <<shape, faceGroup, material>>

\* namebuf of the usemtl directive
UsemtlName(buf) == Rest(buf, FirstToken(buf) + 7)

HandleUsemtl ==
    \E line \in Offered :
        /\ Reads(line, {"usemtl"})
        /\ UsemtlStore(LookupMaterial(material_map, UsemtlName(StripEol(line))))
        /\ UNCHANGED <<v, vn, vt, tags, name, material_map, shapes, materials, err,
                       fsys, m_inStream>>

\* one turn of the names loop of the g directive: parseString from the cursor,
\* push_back, token += strspn(token, " \t\r"); b and e are the ends of the
\* string parseString took
NamesNext(s, b, e, names) ==
    [token |-> e + strspn(s, e, {SP, TAB, CR}), names |-> Append(names, SubSeq(s, b, e - 1))]

NamesTurn(s, token, names) ==
    NamesNext(s, token + strspn(s, token, {SP, TAB}),
              token + strspn(s, token, {SP, TAB})
                  + strcspn(s, token + strspn(s, token, {SP, TAB}), {SP, TAB, CR}),
              names)

\* the names loop of the g directive, which starts on the keyword itself
RECURSIVE ParseNames(_, _, _)
ParseNames(s, token, names) ==
    IF IS_NEW_LINE(At(s, token)) THEN names
    ELSE ParseNames(s, NamesTurn(s, token, names).token, NamesTurn(s, token, names).names)

\* the g directive with the name taken from names[0], the keyword
HandleGFirst ==
    \E line \in Offered :
        /\ Reads(line, {"g"})
        /\ LET buf == StripEol(line)
               r == exportFaceGroupToShape(shape, faceGroup, tags, material, name, triangulate)
               names == ParseNames(buf, FirstToken(buf), <<>>)
           IN  /\ shapes' = IF r.ret THEN Append(shapes, r.shape) ELSE shapes
               /\ shape' = EmptyShape
               /\ faceGroup' = <<>>
               /\ name' = IF Len(names) > 1 THEN names[1] ELSE <<>>
        /\ UNCHANGED <<v, vn, vt, tags, material_map, material, materials, err,
                       fsys, m_inStream>>

HandleG ==
    \E line \in Offered :
        /\ Reads(line, {"g"})
        /\ LET buf == StripEol(line)
               r == exportFaceGroupToShape(shape, faceGroup, tags, material, name, triangulate)
               names == ParseNames(buf, FirstToken(buf), <<>>)
           IN  /\ shapes' = IF r.ret THEN Append(shapes, r.shape) ELSE shapes
               /\ shape' = EmptyShape
               /\ faceGroup' = <<>>
               /\ name' = IF Len(names) > 1 THEN names[2] ELSE <<>>
        /\ UNCHANGED <<v, vn, vt, tags, material_map, material, materials, err,
                       fsys, m_inStream>>

\* the o directive with the material id set back to -1 for the new object
HandleOReset ==
    \E line \in Offered :
        /\ Reads(line, {"o"})
        /\ LET buf == StripEol(line)
               r == exportFaceGroupToShape(shape, faceGroup, tags, material, name, triangulate)
           IN  /\ shapes' = IF r.ret THEN Append(shapes, r.shape) ELSE shapes
               /\ faceGroup' = <<>>
               /\ shape' = EmptyShape
               /\ name' = Rest(buf, FirstToken(buf) + 2)
               /\ material' = 0 - 1
        /\ UNCHANGED <<v, vn, vt, tags, material_map, materials, err, fsys, m_inStream>>

HandleO ==
    \E line \in Offered :
        /\ Reads(line, {"o"})
        /\ LET buf == StripEol(line)
               r == exportFaceGroupToShape(shape, faceGroup, tags, material, name, triangulate)
           IN  /\ shapes' = IF r.ret THEN Append(shapes, r.shape) ELSE shapes
               /\ faceGroup' = <<>>
               /\ shape' = EmptyShape
               /\ name' = Rest(buf, FirstToken(buf) + 2)
        /\ UNCHANGED <<v, vn, vt, tags, material_map, material, materials, err,
                       fsys, m_inStream>>

\* blank lines, comments and lines no test of the chain accepts
HandleSkip ==
    \E line \in Offered :
        /\ Reads(line, {"skip", "none"})
        /\ UNCHANGED <<v, vn, vt, tags, faceGroup, name, material_map, material, shape,
                       shapes, materials, err, fsys, m_inStream>>

\* inStream->peek() == -1: the code after the loop
EndOfStream ==
    /\ pc = "reading"
    /\ inStream.pos = 0 \/ Offered = {}
    /\ inStream' = Peeked(inStream)
    /\ LET r == exportFaceGroupToShape(shape, faceGroup, tags, material, name, triangulate)
       IN  /\ shape' = r.shape
           /\ shapes' = IF r.ret \/ Len(r.shape.mesh.indices) > 0
                        THEN Append(shapes, r.shape) ELSE shapes
    /\ faceGroup' = <<>>
    /\ attrib' = [vertices |-> v, normals |-> vn, texcoords |-> vt]
    /\ v' = attrib.vertices /\ vn' = attrib.normals /\ vt' = attrib.texcoords
    /\ pc' = "done"
    /\ UNCHANGED <<params, consumed, linebuf, linebuf_data, nlines, tags, name, material_map,
                   material, materials, err, fsys, m_inStream, mtl>>

(***************************************************************************)
(* The t directive.  The tag name is the text from the cursor to the end   *)
(* of the line, and token += tag.name.size() + 1 leaves the cursor one     *)
(* byte past the terminator of linebuf: everything after the name is read  *)
(* from the bytes that follow the line in memory.  The operators below     *)
(* take s, the bytes of linebuf that the call has written, which end with  *)
(* a NUL; what a read behind them gives is indeterminate, as is where the  *)
(* cursor stands after it, and such a read can end the process.            *)
(***************************************************************************)
\* parseTagTriple: the three counts and the cursor it leaves
parseTagTriple(s, token) ==
    LET d == {"/", SP, TAB, CR}
        t1 == token + strcspn(s, token, d)
        t2 == t1 + 1 + strcspn(s, t1 + 1, d)
        t3 == t2 + 1 + strcspn(s, t2 + 1, d) + 1
    IN  IF At(s, t1) /= "/"
        THEN [num_ints |-> atoi(s, token), num_reals |-> 0, num_strings |-> 0, token |-> t1]
        ELSE IF At(s, t2) /= "/"
        THEN [num_ints |-> atoi(s, token), num_reals |-> atoi(s, t1 + 1), num_strings |-> 0,
              token |-> t2]
        ELSE [num_ints |-> atoi(s, token), num_reals |-> atoi(s, t1 + 1),
              num_strings |-> atoi(s, t2 + 1), token |-> t3]

\* the storage the allocator is taken to grant to one resize(), in bytes; a
\* resize() that asks for more is granted or ends with std::bad_alloc, as
\* the memory of the machine decides
GrantedBytes == 16384

\* resize(static_cast<size_t>(n)) with n below zero: std::length_error
LengthError(token) ==
    [thrown |-> TRUE, lost |-> FALSE, large |-> FALSE, vals |-> <<>>, token |-> token]

\* resize(n) for more than GrantedBytes, and the loop of n reads once the
\* storage is granted: each read moves the cursor by a byte at least, so the
\* loop leaves the bytes the call has written
Large(s) ==
    [thrown |-> FALSE, lost |-> TRUE, large |-> TRUE, vals |-> Indeterminate,
     token |-> Len(s) + 1]

\* a loop of n reads that starts behind the bytes the call has written
Unwritten(s, n, vals) ==
    [thrown |-> FALSE, lost |-> TRUE, large |-> FALSE,
     vals |-> vals \o [i \in 1..n |-> Indeterminate], token |-> Len(s) + 1]

\* intValues.resize(n); for (i < n): intValues[i] = atoi(token);
\* token += strcspn(...) + 1
RECURSIVE TagInts(_, _, _, _)
TagInts(s, token, n, vals) ==
    IF n < 0 THEN LengthError(token)
    ELSE IF n = 0
    THEN [thrown |-> FALSE, lost |-> FALSE, large |-> FALSE, vals |-> vals, token |-> token]
    ELSE IF n > GrantedBytes \div 4 THEN Large(s)
    ELSE IF token > Len(s) THEN Unwritten(s, n, vals)
    ELSE TagInts(s, token + strcspn(s, token, {"/", SP, TAB, CR}) + 1, n - 1,
                 Append(vals, atoi(s, token)))

\* floatValues.resize(n); for (i < n): floatValues[i] = parseReal(&token);
\* token += strcspn(...) + 1
RECURSIVE TagFloats(_, _, _, _)
TagFloats(s, token, n, vals) ==
    IF n < 0 THEN LengthError(token)
    ELSE IF n = 0
    THEN [thrown |-> FALSE, lost |-> FALSE, large |-> FALSE, vals |-> vals, token |-> token]
    ELSE IF n > GrantedBytes \div 4 THEN Large(s)
    ELSE IF token > Len(s) THEN Unwritten(s, n, vals)
    ELSE TagFloats(s, parseReal(s, token, ZeroReal).token
                      + strcspn(s, parseReal(s, token, ZeroReal).token, {"/", SP, TAB, CR}) + 1,
                   n - 1, Append(vals, parseReal(s, token, ZeroReal).val))

\* stringValues.resize(n); for (i < n): sstr << token;
\* token += stringValues[i].size() + 1
RECURSIVE TagStrings(_, _, _, _)
TagStrings(s, token, n, vals) ==
    IF n < 0 THEN LengthError(token)
    ELSE IF n = 0
    THEN [thrown |-> FALSE, lost |-> FALSE, large |-> FALSE, vals |-> vals, token |-> token]
    ELSE IF n > GrantedBytes \div 32 THEN Large(s)
    ELSE IF token > Len(s) THEN Unwritten(s, n, vals)
    ELSE TagStrings(s, token + Len(Rest(s, token)) + 1, n - 1, Append(vals, Rest(s, token)))

\* the three loops, ts being what parseTagTriple returned; the first
\* resize() that throws std::length_error ends them; lost says that a loop
\* has read behind the bytes the call has written, large that a resize()
\* the call comes to has asked for more than GrantedBytes
TagValues(s, ts) ==
    LET ints == TagInts(s, ts.token, ts.num_ints, <<>>)
        floats == TagFloats(s, ints.token, ts.num_reals, <<>>)
        strings == TagStrings(s, floats.token, ts.num_strings, <<>>)
    IN  IF ints.thrown
        THEN [thrown |-> TRUE, lost |-> FALSE, large |-> FALSE, intValues |-> <<>>,
              floatValues |-> <<>>, stringValues |-> <<>>]
        ELSE IF floats.thrown
        THEN [thrown |-> TRUE, lost |-> ints.lost, large |-> ints.large, intValues |-> <<>>,
              floatValues |-> <<>>, stringValues |-> <<>>]
        ELSE IF strings.thrown
        THEN [thrown |-> TRUE, lost |-> ints.lost \/ floats.lost,
              large |-> ints.large \/ floats.large, intValues |-> <<>>,
              floatValues |-> <<>>, stringValues |-> <<>>]
        ELSE [thrown |-> FALSE, lost |-> ints.lost \/ floats.lost \/ strings.lost,
              large |-> ints.large \/ floats.large \/ strings.large,
              intValues |-> ints.vals, floatValues |-> floats.vals,
              stringValues |-> strings.vals]

\* token += 2; tag.name = token; token += tag.name.size() + 1: where the
\* cursor stands in linebuf when parseTagTriple is called
TagCursor(buf) == FirstToken(buf) + 2 + Len(Rest(buf, FirstToken(buf) + 2)) + 1

\* the tag a t line gives when the cursor of parseTagTriple stands in s
TagOf(s) ==
    [name |-> Rest(s, FirstToken(s) + 2)]
        @@ TagValues(s, parseTagTriple(s, TagCursor(s)))

\* the tag of a t line whose counts are read behind the bytes the call
\* has written
TagUnwritten(s) ==
    [name |-> Rest(s, FirstToken(s) + 2), intValues |-> Indeterminate,
     floatValues |-> Indeterminate, stringValues |-> Indeterminate]

\* how the t directive can end, as the pc it leaves and the tags it
\* appends: with the tag, with the exception of a resize() (std::length_error
\* for a count below zero, std::bad_alloc for storage the allocator does not
\* grant), or, once it reads behind the bytes the call has written, with the
\* end of the process
TagOutcomes(s) ==
    LET tag == [f \in {"name", "intValues", "floatValues", "stringValues"} |-> TagOf(s)[f]]
        thrown == [pc |-> "thrown", tags |-> <<>>]
        crashed == [pc |-> "crashed", tags |-> <<>>]
    IN  IF TagCursor(s) > Len(s)
        THEN {[pc |-> "reading", tags |-> <<TagUnwritten(s)>>], thrown, crashed}
        ELSE {IF TagOf(s).thrown THEN thrown ELSE [pc |-> "reading", tags |-> <<tag>>]}
                 \cup (IF TagOf(s).lost THEN {crashed} ELSE {})
                 \cup (IF TagOf(s).large THEN {thrown} ELSE {})

\* the t directive: the values are read behind the terminator of linebuf,
\* from what the lines before have left there and then from memory the
\* call has not written; an exception leaves LoadObj with the output
\* parameters as they are
HandleT ==
    \E line \in Offered :
        /\ ReadsLine(line, {"t"})
        /\ \E end \in TagOutcomes(LineData(line, linebuf_data)) :
               /\ pc' = end.pc
               /\ tags' = tags \o end.tags
        /\ UNCHANGED <<params, attrib, mtl, v, vn, vt, faceGroup, name, material_map,
                       material, shape, shapes, materials, err, fsys, m_inStream>>

(***************************************************************************)
(* File-based LoadObj.                                                     *)
(***************************************************************************)
CannotOpen == "Cannot open file"

\* std::ifstream ifs(filename) is inStream, mtl_basedir is m_mtlBaseDir; the
\* call ends with false or goes on as the stream-based LoadObj with a
\* MaterialFileReader
LoadObjFile ==
    /\ pc = "opening"
    /\ attrib' = [vertices |-> <<>>, normals |-> <<>>, texcoords |-> <<>>]
    /\ shapes' = <<>>
    /\ IF inStream.state = "fail"
       THEN /\ err' = <<CannotOpen>>
            /\ pc' = "failed"
            /\ UNCHANGED readMatFn
       ELSE /\ readMatFn' = "file"
            /\ pc' = "reading"
            /\ UNCHANGED err
    /\ UNCHANGED <<alphabet, limit, history, triangulate, m_mtlBaseDir, consumed, fsys,
                   m_inStream, inStream, linebuf, linebuf_data, nlines, v, vn, vt, tags, faceGroup,
                   name, material_map, material, shape, materials, mtl>>

(***************************************************************************)
(* Materials.                                                              *)
(***************************************************************************)
Zero3 == <<ZeroReal, ZeroReal, ZeroReal>>
One3 == <<OneReal, OneReal, OneReal>>

TexNames == {"ambient_texname", "diffuse_texname", "specular_texname",
             "specular_highlight_texname", "bump_texname", "displacement_texname",
             "alpha_texname", "reflection_texname", "roughness_texname",
             "metallic_texname", "sheen_texname", "emissive_texname", "normal_texname"}

TexOpts == {"ambient_texopt", "diffuse_texopt", "specular_texopt",
            "specular_highlight_texopt", "bump_texopt", "displacement_texopt",
            "alpha_texopt", "reflection_texopt", "roughness_texopt",
            "metallic_texopt", "sheen_texopt", "emissive_texopt", "normal_texopt"}

Colors == {"ambient", "diffuse", "specular", "transmittance", "emission"}

Scalars == {"shininess", "ior", "dissolve", "roughness", "metallic", "sheen",
            "clearcoat_thickness", "clearcoat_roughness", "anisotropy",
            "anisotropy_rotation"}

\* a texture_option_t nothing has written: every field is indeterminate, which
\* the type field records
IndeterminateTexOpt ==
    [imfchan |-> "?", bump_multiplier |-> ZeroReal, clamp |-> FALSE, blendu |-> FALSE,
     blendv |-> FALSE, sharpness |-> ZeroReal, brightness |-> ZeroReal,
     contrast |-> ZeroReal, origin_offset |-> Zero3, scale |-> Zero3,
     turbulence |-> Zero3, type |-> Indeterminate]

\* `material_t material;`: a record is a function from its field names; the
\* fields dummy, pad0 and pad2 are never written or read and are left out
UninitMaterial ==
    [f \in {"name", "illum", "unknown_parameter"} \cup Colors \cup Scalars
           \cup TexNames \cup TexOpts |->
        IF f \in TexOpts THEN IndeterminateTexOpt ELSE Indeterminate]

EmptyMap == [k \in {} |-> 0]

\* InitMaterial leaves the thirteen texture option records as they are
InitMaterial(m) ==
    [f \in DOMAIN m |->
        IF f \in TexOpts THEN m[f]
        ELSE IF f = "name" \/ f \in TexNames THEN <<>>
        ELSE IF f \in Colors THEN Zero3
        ELSE IF f = "illum" THEN 0
        ELSE IF f \in {"dissolve", "shininess", "ior"} THEN OneReal
        ELSE IF f = "unknown_parameter" THEN EmptyMap
        ELSE ZeroReal]

\* an insert that replaces the value of an existing key
MapInsertOver(map, key, value) ==
    [k \in DOMAIN map \union {key} |-> IF k = key THEN value ELSE map[k]]

\* std::map::insert: an existing key keeps its value
MapInsert(map, key, value) ==
    IF key \in DOMAIN map THEN map ELSE map @@ (key :> value)

(***************************************************************************)
(* Texture options.                                                        *)
(***************************************************************************)
OnOffAt(s, token, default_value) ==
    [val |-> IF strncmp0(s, token, <<"o", "n">>) THEN TRUE
             ELSE IF strncmp0(s, token, <<"o", "f", "f">>) THEN FALSE
             ELSE default_value,
     token |-> TokenEnd(s, token)]

parseOnOff(s, token, default_value) == OnOffAt(s, SkipBlanks(s, token), default_value)

\* the chain of strncmp tests of parseTextureType
TextureTypeAt(s, token, default_value) ==
    [val |-> IF strncmp0(s, token, <<"c", "u", "b", "e", "_", "t", "o", "p">>)
             THEN "TEXTURE_TYPE_CUBE_TOP"
             ELSE IF strncmp0(s, token, <<"c", "u", "b", "e", "_", "b", "o", "t", "t", "o", "m">>)
             THEN "TEXTURE_TYPE_CUBE_BOTTOM"
             ELSE IF strncmp0(s, token, <<"c", "u", "b", "e", "_", "l", "e", "f", "t">>)
             THEN "TEXTURE_TYPE_CUBE_LEFT"
             ELSE IF strncmp0(s, token, <<"c", "u", "b", "e", "_", "r", "i", "g", "h", "t">>)
             THEN "TEXTURE_TYPE_CUBE_RIGHT"
             ELSE IF strncmp0(s, token, <<"c", "u", "b", "e", "_", "f", "r", "o", "n", "t">>)
             THEN "TEXTURE_TYPE_CUBE_FRONT"
             ELSE IF strncmp0(s, token, <<"c", "u", "b", "e", "_", "b", "a", "c", "k">>)
             THEN "TEXTURE_TYPE_CUBE_BACK"
             ELSE IF strncmp0(s, token, <<"s", "p", "h", "e", "r", "e">>)
             THEN "TEXTURE_TYPE_SPHERE"
             ELSE default_value,
     token |-> TokenEnd(s, token)]

parseTextureType(s, token, default_value) ==
    TextureTypeAt(s, SkipBlanks(s, token), default_value)

\* the assignments that open ParseTextureNameAndOption
DefaultTexOpt(is_bump) ==
    [imfchan |-> IF is_bump THEN "l" ELSE "m",
     bump_multiplier |-> OneReal, clamp |-> FALSE, blendu |-> TRUE, blendv |-> TRUE,
     sharpness |-> OneReal, brightness |-> ZeroReal, contrast |-> OneReal,
     origin_offset |-> Zero3, scale |-> One3, turbulence |-> Zero3,
     type |-> "TEXTURE_TYPE_NONE"]

\* a dash-flag at the cursor: the flag text followed by a space or a tab
IsFlag(s, token, flag) == strncmp0(s, token, flag) /\ IS_SPACE(At(s, token + Len(flag)))

\* The state of the while loop is st = [token, texopt, texture_name,
\* found_texname].  A flag stores what its parser returned (r) and leaves the
\* cursor where the parser left it.
SetOption(st, field, r) == [st EXCEPT !.token = r.token, !.texopt[field] = r.val]

SetOption3(st, field, r) ==
    [st EXCEPT !.token = r.token, !.texopt[field] = <<r.x, r.y, r.z>>]

SetBrightnessContrast(st, r) ==
    [st EXCEPT !.token = r.token, !.texopt.brightness = r.x, !.texopt.contrast = r.y]

\* -imfchan: the token [token, end) is stored when it is one character long
SetImfchan(s, st, token, end) ==
    [st EXCEPT !.token = end,
               !.texopt.imfchan = IF end - token = 1 THEN At(s, token) ELSE @]

\* the else branch: the token [token, end) is the texture name
SetTextureName(s, st, token, end) ==
    [st EXCEPT !.token = SkipBlanks(s, end),
               !.texture_name = SubSeq(s, token, end - 1),
               !.found_texname = TRUE]

\* the chain of flag tests, the blanks before the token skipped
TexOptionAt(s, st, token) ==
    IF IsFlag(s, token, <<"-", "b", "l", "e", "n", "d", "u">>)
    THEN SetOption(st, "blendu", parseOnOff(s, token + 8, TRUE))
    ELSE IF IsFlag(s, token, <<"-", "b", "l", "e", "n", "d", "v">>)
    THEN SetOption(st, "blendv", parseOnOff(s, token + 8, TRUE))
    ELSE IF IsFlag(s, token, <<"-", "c", "l", "a", "m", "p">>)
    THEN SetOption(st, "clamp", parseOnOff(s, token + 7, TRUE))
    ELSE IF IsFlag(s, token, <<"-", "b", "o", "o", "s", "t">>)
    THEN SetOption(st, "sharpness", parseReal(s, token + 7, OneReal))
    ELSE IF IsFlag(s, token, <<"-", "b", "m">>)
    THEN SetOption(st, "bump_multiplier", parseReal(s, token + 4, OneReal))
    ELSE IF IsFlag(s, token, <<"-", "o">>)
    THEN SetOption3(st, "origin_offset", parseReal3(s, token + 3, ZeroReal, ZeroReal, ZeroReal))
    ELSE IF IsFlag(s, token, <<"-", "s">>)
    THEN SetOption3(st, "scale", parseReal3(s, token + 3, OneReal, OneReal, OneReal))
    ELSE IF IsFlag(s, token, <<"-", "t">>)
    THEN SetOption3(st, "turbulence", parseReal3(s, token + 3, ZeroReal, ZeroReal, ZeroReal))
    ELSE IF IsFlag(s, token, <<"-", "t", "y", "p", "e">>)
    THEN SetOption(st, "type", parseTextureType(s, token + 5, "TEXTURE_TYPE_NONE"))
    ELSE IF IsFlag(s, token, <<"-", "i", "m", "f", "c", "h", "a", "n">>)
    THEN SetImfchan(s, st, SkipBlanks(s, token + 9), TokenEnd(s, SkipBlanks(s, token + 9)))
    ELSE IF IsFlag(s, token, <<"-", "m", "m">>)
    THEN SetBrightnessContrast(st, parseReal2(s, token + 4, ZeroReal, OneReal))
    ELSE SetTextureName(s, st, token, TokenEnd(s, token))

\* one turn of the while loop
TexOptionStep(s, st) == TexOptionAt(s, st, SkipBlanks(s, st.token))

RECURSIVE TexOptionLoop(_, _)
TexOptionLoop(s, st) ==
    IF IS_NEW_LINE(At(s, st.token)) THEN st
    ELSE TexOptionLoop(s, TexOptionStep(s, st))

\* after the loop: the name to store (texname when none was found) and the
\* options, which are rewritten in every case
TexResult(texname, st) ==
    [ret |-> st.found_texname,
     texname |-> IF st.found_texname THEN st.texture_name ELSE texname,
     texopt |-> st.texopt]

ParseTextureNameAndOption(texname, s, linebuf_at, is_bump) ==
    TexResult(texname,
              TexOptionLoop(s, [token |-> linebuf_at, texopt |-> DefaultTexOpt(is_bump),
                                texture_name |-> <<>>, found_texname |-> FALSE]))

(***************************************************************************)
(* LoadMtl.  Its locals and the two containers it appends to form the      *)
(* record st = [material, has_d, has_tr, ss, materials, material_map].     *)
(***************************************************************************)
\* linebuf.substr(0, linebuf.find_last_not_of(" \t") + 1)
RECURSIVE TrimRight(_)
TrimRight(line) ==
    IF Len(line) > 0 /\ IS_SPACE(line[Len(line)])
    THEN TrimRight(SubSeq(line, 1, Len(line) - 1))
    ELSE line

MtlLinebuf(line) == StripEol(TrimRight(line))

\* keyword, the offset added to the cursor, texture name field, option field, is_bump
TextureDirectives ==
    << <<"map_Ka", 7, "ambient_texname", "ambient_texopt", FALSE>>,
       <<"map_Kd", 7, "diffuse_texname", "diffuse_texopt", FALSE>>,
       <<"map_Ks", 7, "specular_texname", "specular_texopt", FALSE>>,
       <<"map_Ns", 7, "specular_highlight_texname", "specular_highlight_texopt", FALSE>>,
       <<"map_bump", 9, "bump_texname", "bump_texopt", TRUE>>,
       <<"bump", 5, "bump_texname", "bump_texopt", TRUE>>,
       <<"map_d", 6, "alpha_texname", "alpha_texopt", FALSE>>,
       <<"disp", 5, "displacement_texname", "displacement_texopt", FALSE>>,
       <<"refl", 5, "reflection_texname", "reflection_texopt", FALSE>>,
       <<"map_Pr", 7, "roughness_texname", "roughness_texopt", FALSE>>,
       <<"map_Pm", 7, "metallic_texname", "metallic_texopt", FALSE>>,
       <<"map_Ps", 7, "sheen_texname", "sheen_texopt", FALSE>>,
       <<"map_Ke", 7, "emissive_texname", "emissive_texopt", FALSE>>,
       <<"norm", 5, "normal_texname", "normal_texopt", FALSE>> >>

\* the keywords as character sequences
Keyword(k) ==
    CASE k = "newmtl" -> <<"n", "e", "w", "m", "t", "l">>
      [] k = "illum" -> <<"i", "l", "l", "u", "m">>
      [] k = "Pcr" -> <<"P", "c", "r">>
      [] k = "aniso" -> <<"a", "n", "i", "s", "o">>
      [] k = "anisor" -> <<"a", "n", "i", "s", "o", "r">>
      [] k = "map_Ka" -> <<"m", "a", "p", "_", "K", "a">>
      [] k = "map_Kd" -> <<"m", "a", "p", "_", "K", "d">>
      [] k = "map_Ks" -> <<"m", "a", "p", "_", "K", "s">>
      [] k = "map_Ns" -> <<"m", "a", "p", "_", "N", "s">>
      [] k = "map_bump" -> <<"m", "a", "p", "_", "b", "u", "m", "p">>
      [] k = "bump" -> <<"b", "u", "m", "p">>
      [] k = "map_d" -> <<"m", "a", "p", "_", "d">>
      [] k = "disp" -> <<"d", "i", "s", "p">>
      [] k = "refl" -> <<"r", "e", "f", "l">>
      [] k = "map_Pr" -> <<"m", "a", "p", "_", "P", "r">>
      [] k = "map_Pm" -> <<"m", "a", "p", "_", "P", "m">>
      [] k = "map_Ps" -> <<"m", "a", "p", "_", "P", "s">>
      [] k = "map_Ke" -> <<"m", "a", "p", "_", "K", "e">>
      [] k = "norm" -> <<"n", "o", "r", "m">>

\* (0 == strncmp(token, k, n)) && IS_SPACE(token[n])
IsKeyword(s, token, k) ==
    strncmp0(s, token, Keyword(k)) /\ IS_SPACE(At(s, token + Len(Keyword(k))))

\* token[0] == a && token[1] == b && IS_SPACE(token[2])
IsKey2(s, token, a, b) ==
    At(s, token) = a /\ At(s, token + 1) = b /\ IS_SPACE(At(s, token + 2))

\* the first texture directive of the chain that accepts the line, 0 when none
TextureIndex(s, token) ==
    IF \E i \in 1..Len(TextureDirectives) : IsKeyword(s, token, TextureDirectives[i][1])
    THEN CHOOSE i \in 1..Len(TextureDirectives) :
            /\ IsKeyword(s, token, TextureDirectives[i][1])
            /\ \A j \in 1..(i - 1) : ~IsKeyword(s, token, TextureDirectives[j][1])
    ELSE 0

\* the chain of tests of the loop body, in the order of the source
MtlDirectiveAt(buf, token) ==
    IF buf = <<>> \/ At(buf, token) = NUL \/ At(buf, token) = "#" THEN "skip"
    ELSE IF IsKeyword(buf, token, "newmtl") THEN "newmtl"
    ELSE IF IsKey2(buf, token, "K", "a") THEN "Ka"
    ELSE IF IsKey2(buf, token, "K", "d") THEN "Kd"
    ELSE IF IsKey2(buf, token, "K", "s") THEN "Ks"
    ELSE IF IsKey2(buf, token, "K", "t") \/ IsKey2(buf, token, "T", "f") THEN "Kt"
    ELSE IF IsKey2(buf, token, "N", "i") THEN "Ni"
    ELSE IF IsKey2(buf, token, "K", "e") THEN "Ke"
    ELSE IF IsKey2(buf, token, "N", "s") THEN "Ns"
    ELSE IF IsKeyword(buf, token, "illum") THEN "illum"
    ELSE IF At(buf, token) = "d" /\ IS_SPACE(At(buf, token + 1)) THEN "d"
    ELSE IF IsKey2(buf, token, "T", "r") THEN "Tr"
    ELSE IF IsKey2(buf, token, "P", "r") THEN "Pr"
    ELSE IF IsKey2(buf, token, "P", "m") THEN "Pm"
    ELSE IF IsKey2(buf, token, "P", "s") THEN "Ps"
    ELSE IF IsKey2(buf, token, "P", "c") THEN "Pc"
    ELSE IF IsKeyword(buf, token, "Pcr") THEN "Pcr"
    ELSE IF IsKeyword(buf, token, "aniso") THEN "aniso"
    ELSE IF IsKeyword(buf, token, "anisor") THEN "anisor"
    ELSE IF TextureIndex(buf, token) /= 0 THEN "texture"
    ELSE "unknown"

MtlDirective(buf) == MtlDirectiveAt(buf, FirstToken(buf))

ColorField(d) ==
    CASE d = "Ka" -> "ambient" [] d = "Kd" -> "diffuse" [] d = "Ks" -> "specular"
      [] d = "Kt" -> "transmittance" [] d = "Ke" -> "emission"

\* field and cursor offset of the directives that store one parseReal
ScalarField(d) ==
    CASE d = "Ni" -> <<"ior", 2>> [] d = "Ns" -> <<"shininess", 2>>
      [] d = "Pr" -> <<"roughness", 2>> [] d = "Pm" -> <<"metallic", 2>>
      [] d = "Ps" -> <<"sheen", 2>> [] d = "Pc" -> <<"clearcoat_thickness", 2>>
      [] d = "Pcr" -> <<"clearcoat_roughness", 4>> [] d = "aniso" -> <<"anisotropy", 6>>
      [] d = "anisor" -> <<"anisotropy_rotation", 7>>

WarnBoth == "WARN: Both d and Tr parameters defined"

\* the position of the first c at or after the cursor, 0 when there is none
strchr(s, token, c) ==
    IF \E i \in token..(token + strlen(s, token) - 1) : s[i] = c
    THEN CHOOSE i \in token..(token + strlen(s, token) - 1) :
             s[i] = c /\ \A j \in token..(i - 1) : s[j] /= c
    ELSE 0

\* the last block of the loop body, space being the position strchr found
\* (a ' ', or a '\t' when the line has no ' '), 0 for none
UnknownAt(m, s, token, space) ==
    IF space /= 0
    THEN [m EXCEPT !.unknown_parameter =
             MapInsert(@, SubSeq(s, token, space - 1), Rest(s, space + 1))]
    ELSE m

StoreUnknown(m, s, token) ==
    UnknownAt(m, s, token,
              IF strchr(s, token, SP) /= 0 THEN strchr(s, token, SP)
              ELSE strchr(s, token, TAB))

\* if (!material.name.empty()) { insert; push_back }
CommitNamed(st) ==
    IF st.material.name /= <<>>
    THEN [st EXCEPT !.material_map = MapInsert(@, st.material.name, Len(st.materials)),
                    !.materials = Append(@, st.material)]
    ELSE st

\* the last commit with the index taken after the push_back
CommitLastAhead(st) ==
    [st EXCEPT !.material_map = MapInsert(@, st.material.name, Len(st.materials) + 1),
               !.materials = Append(@, st.material)]

\* the two statements after the loop
CommitLast(st) ==
    [st EXCEPT !.material_map = MapInsert(@, st.material.name, Len(st.materials)),
               !.materials = Append(@, st.material)]

\* newmtl: the open record is committed and a fresh one named
Newmtl(st, nm) ==
    [st EXCEPT !.material = [InitMaterial(@) EXCEPT !.name = nm],
               !.has_d = FALSE, !.has_tr = FALSE]

SetColor(st, field, r) == [st EXCEPT !.material[field] = <<r.x, r.y, r.z>>]

SetField(st, field, r) == [st EXCEPT !.material[field] = r.val]

\* the d directive, r being what parseReal returned
SetDissolve(st, r) ==
    [st EXCEPT !.material.dissolve = r.val,
               !.ss = IF st.has_tr THEN Append(@, WarnBoth) ELSE @,
               !.has_d = TRUE]

\* the Tr directive with the value stored whether or not a d was seen
SetTransparencyAlways(st, s, token) ==
    [SetField(st, "dissolve", parseReal(s, token, ZeroReal)) EXCEPT
        !.material.dissolve = RealSub(OneReal, @),
        !.ss = IF st.has_d THEN Append(@, WarnBoth) ELSE @,
        !.has_tr = TRUE]

\* the Tr directive: the value is parsed only when no d was seen
SetTransparency(st, s, token) ==
    IF st.has_d
    THEN [st EXCEPT !.ss = Append(@, WarnBoth), !.has_tr = TRUE]
    ELSE [SetField(st, "dissolve", parseReal(s, token, ZeroReal)) EXCEPT
             !.material.dissolve = RealSub(OneReal, @), !.has_tr = TRUE]

\* a texture directive td, tex being what ParseTextureNameAndOption returned
SetTexture(st, td, tex) ==
    [st EXCEPT !.material[td[3]] = tex.texname, !.material[td[4]] = tex.texopt]

\* map_d assigns alpha_texname = token before the options are parsed
TextureLine(st, buf, token, td) ==
    SetTexture(st, td,
        ParseTextureNameAndOption(
            IF td[1] = "map_d" THEN Rest(buf, token + td[2]) ELSE st.material[td[3]],
            buf, token + td[2], td[5]))

\* the loop body once the chain of tests has chosen directive d
MtlDispatch(st, buf, token, d) ==
    IF d = "skip" THEN st
    ELSE IF d = "newmtl" THEN Newmtl(CommitNamed(st), Rest(buf, token + 7))
    ELSE IF d \in {"Ka", "Kd", "Ks", "Kt", "Ke"}
    THEN SetColor(st, ColorField(d), parseReal3(buf, token + 2, ZeroReal, ZeroReal, ZeroReal))
    ELSE IF d \in {"Ni", "Ns", "Pr", "Pm", "Ps", "Pc", "Pcr", "aniso", "anisor"}
    THEN SetField(st, ScalarField(d)[1], parseReal(buf, token + ScalarField(d)[2], ZeroReal))
    ELSE IF d = "illum" THEN SetField(st, "illum", parseInt(buf, token + 6))
    ELSE IF d = "d" THEN SetDissolve(st, parseReal(buf, token + 1, ZeroReal))
    ELSE IF d = "Tr" THEN SetTransparency(st, buf, token + 2)
    ELSE IF d = "texture"
    THEN TextureLine(st, buf, token, TextureDirectives[TextureIndex(buf, token)])
    ELSE [st EXCEPT !.material = StoreUnknown(@, buf, token)]

MtlBuf(st, buf) == MtlDispatch(st, buf, FirstToken(buf), MtlDirective(buf))

\* one turn of the line loop of LoadMtl
MtlLine(st, line) == MtlBuf(st, MtlLinebuf(line))

RECURSIVE MtlLines(_, _, _)
MtlLines(st, lines, i) ==
    IF i <= Len(lines) THEN MtlLines(MtlLine(st, lines[i]), lines, i + 1) ELSE st

\* the locals of LoadMtl as the loop is entered
MtlLocals == [material |-> InitMaterial(UninitMaterial), has_d |-> FALSE,
              has_tr |-> FALSE, ss |-> <<>>]

\* what LoadMtl leaves: the two containers and *warning = ss.str()
MtlResult(st) ==
    [material_map |-> st.material_map, materials |-> st.materials, warning |-> st.ss]

\* LoadMtl over a stream that delivers `lines`
LoadMtl(map, mats, lines) ==
    MtlResult(CommitLast(MtlLines(
        [material |-> MtlLocals.material, has_d |-> FALSE, has_tr |-> FALSE,
         ss |-> <<>>, materials |-> mats, material_map |-> map], lines, 1)))

(***************************************************************************)
(* Material readers.  A reader call takes and returns                      *)
(* env = [materials, material_map, m_inStream] and adds ok and err.        *)
(***************************************************************************)
WarnNotFound == "WARN: Material file not found"
WarnStream == "WARN: Material stream in error state"
WarnEmpty == "WARN: Looks like empty filename for mtllib"
WarnFailed == "WARN: Failed to load material file(s)"

\* a reader that ran LoadMtl: r is what LoadMtl left, stream the reader's stream
Loaded(r, stream) ==
    [ok |-> TRUE, err |-> r.warning,
     env |-> [materials |-> r.materials, material_map |-> r.material_map,
              m_inStream |-> stream]]

\* the file reader without the test of the stream it opened
FileReaderOpenUnchecked(filepath, env) ==
    Loaded(LoadMtl(env.material_map, env.materials,
                   IF filepath \in DOMAIN fsys THEN fsys[filepath] ELSE <<>>),
           env.m_inStream)

\* std::ifstream matIStream(filepath); if (!matIStream) ...; LoadMtl
FileReaderOpen(filepath, env) ==
    IF filepath \notin DOMAIN fsys
    THEN [ok |-> FALSE, err |-> <<WarnNotFound>>, env |-> env]
    ELSE Loaded(LoadMtl(env.material_map, env.materials, fsys[filepath]), env.m_inStream)

MaterialFileReader(matId, env) ==
    FileReaderOpen(IF m_mtlBaseDir /= <<>> THEN m_mtlBaseDir \o matId ELSE matId, env)

\* The stream is "good" (lines to deliver), "eof" (eofbit set by the peek that
\* ended an earlier LoadMtl) or "fail".  A peek on a stream that is not good
\* sets failbit.
MaterialStreamReader(matId, env) ==
    IF env.m_inStream.state = "fail"
    THEN [ok |-> FALSE, err |-> <<WarnStream>>, env |-> env]
    ELSE Loaded(LoadMtl(env.material_map, env.materials,
                        IF env.m_inStream.state = "good" THEN env.m_inStream.lines ELSE <<>>),
                [state |-> IF env.m_inStream.state = "good" THEN "eof" ELSE "fail",
                 lines |-> <<>>])

\* (*readMatFn)(...)
CallReader(matId, env) ==
    IF readMatFn = "file" THEN MaterialFileReader(matId, env)
    ELSE MaterialStreamReader(matId, env)

\* for (size_t s = 0; s < filenames.size(); s++): acc = [env, err, found], r
\* what the reader returned for filenames[i]
RECURSIVE TryFilenames(_, _, _)
\* the loop without its break
TriedAll(filenames, i, acc, r) ==
    [TryFilenames(filenames, i + 1,
                  [env |-> r.env, err |-> acc.err \o r.err, found |-> acc.found \/ r.ok])
        EXCEPT !.found = @ \/ r.ok]

Tried(filenames, i, acc, r) ==
    IF r.ok THEN [env |-> r.env, err |-> acc.err \o r.err, found |-> TRUE]
    ELSE TryFilenames(filenames, i + 1,
                      [env |-> r.env, err |-> acc.err \o r.err, found |-> FALSE])

TryFilenames(filenames, i, acc) ==
    IF i > Len(filenames) THEN acc
    ELSE Tried(filenames, i, acc, CallReader(filenames[i], acc.env))

\* if (!found) the warning is appended
NotFoundWarning(r) == IF r.found THEN r ELSE [r EXCEPT !.err = Append(@, WarnFailed)]

MtllibFiles(filenames, env, e) ==
    IF filenames = <<>>
    THEN [env |-> env, err |-> Append(e, WarnEmpty), found |-> FALSE]
    ELSE NotFoundWarning(TryFilenames(filenames, 1, [env |-> env, err |-> e, found |-> FALSE]))

\* the body of the mtllib directive with a reader given
Mtllib(buf, env, e) ==
    MtllibFiles(SplitString(Rest(buf, FirstToken(buf) + 7), 1, SP, <<>>), env, e)

\* what the directive leaves in the variables it can change
MtllibStore(r) ==
    /\ materials' = r.env.materials
    /\ material_map' = r.env.material_map
    /\ m_inStream' = r.env.m_inStream
    /\ err' = r.err

HandleMtllib ==
    \E line \in Offered :
        /\ Reads(line, {"mtllib"})
        /\ IF readMatFn /= "null"
           THEN MtllibStore(Mtllib(StripEol(line),
                                   [materials |-> materials, material_map |-> material_map,
                                    m_inStream |-> m_inStream], err))
           ELSE UNCHANGED <<materials, material_map, m_inStream, err>>
        /\ UNCHANGED <<v, vn, vt, tags, faceGroup, name, material, shape, shapes, fsys>>

(***************************************************************************)
(* LoadMtl one line at a time: the call a material reader makes for a      *)
(* mtllib directive, its locals in mtl, the two containers in materials    *)
(* and material_map.                                                       *)
(***************************************************************************)
\* the locals and the containers as the loop body sees them
MtlState ==
    [material |-> mtl.material, has_d |-> mtl.has_d, has_tr |-> mtl.has_tr,
     ss |-> mtl.ss, materials |-> materials, material_map |-> material_map]

MtlStore(st) ==
    /\ mtl' = [material |-> st.material, has_d |-> st.has_d, has_tr |-> st.has_tr,
               ss |-> st.ss]
    /\ materials' = st.materials
    /\ material_map' = st.material_map

\* safeGetline delivered `line`, the chain of tests chose a directive of D and
\* the loop body ran
MtlReads(line, D) ==
    /\ pc = "mtl_reading"
    /\ Delivered(line)
    /\ MtlDirective(MtlLinebuf(line)) \in D
    /\ linebuf' = MtlLinebuf(line)
    /\ MtlStore(MtlLine(MtlState, line))
    /\ UNCHANGED <<params, pc, attrib, v, vn, vt, tags, faceGroup, name, material,
                   shape, shapes, err, fsys, m_inStream, linebuf_data>>

MtlNewmtl == \E line \in Offered : MtlReads(line, {"newmtl"})

MtlColor == \E line \in Offered : MtlReads(line, {"Ka", "Kd", "Ks", "Kt", "Ke"})

MtlScalar ==
    \E line \in Offered :
        MtlReads(line, {"Ni", "Ns", "illum", "Pr", "Pm", "Ps", "Pc", "Pcr", "aniso", "anisor"})

MtlD == \E line \in Offered : MtlReads(line, {"d"})

MtlTr == \E line \in Offered : MtlReads(line, {"Tr"})

MtlTexture == \E line \in Offered : MtlReads(line, {"texture"})

MtlUnknown == \E line \in Offered : MtlReads(line, {"unknown"})

MtlSkip == \E line \in Offered : MtlReads(line, {"skip"})

\* inStream->peek() == -1: the last record is committed, LoadMtl returns and
\* the reader, then LoadObj, append the warning to err
MtlEnd ==
    /\ pc = "mtl_reading"
    /\ inStream.pos = 0 \/ Offered = {}
    /\ inStream' = Peeked(inStream)
    /\ MtlStore(CommitLast(MtlState))
    /\ err' = err \o mtl.ss
    /\ pc' = "mtl_done"
    /\ UNCHANGED <<params, consumed, linebuf, linebuf_data, nlines, attrib, v, vn, vt, tags,
                   faceGroup, name, material, shape, shapes, fsys, m_inStream>>

(***************************************************************************)
(* Inputs.                                                                 *)
(***************************************************************************)
\* the longest streams explored, in lines
MaxLines == 4
MaxIdxLines == 4
MaxRealLines == 3
MaxPolyLines == 3
MaxObjectLines == 5
MaxMtlLines == 4

\* the lines of the streams that exercise shapes and materials
ObjLines ==
    { <<"v", SP, "1", SP, "2", SP, "3">>,
      <<"v", "n", SP, "0", SP, "0", SP, "1">>,
      <<"v", "t", SP, "0", SP, "1">>,
      <<"f", SP, "1", SP, "2", SP, "3">>,
      <<"f", SP, "1", "/", "1", "/", "1", SP, "2", "/", "1", "/", "1", SP, "3", "/", "1", "/", "1", SP, "4", "/", "1", "/", "1">>,
      <<"u", "s", "e", "m", "t", "l", SP, "a">>,
      <<"u", "s", "e", "m", "t", "l", SP, "b">>,
      <<"m", "t", "l", "l", "i", "b", SP, "x", SP, "a">>,
      <<"m", "t", "l", "l", "i", "b", SP, "x">>,
      <<"g", SP, "s">>,
      <<"o", SP, "t">>,
      <<"#", SP, "c">>  }

\* the lines of the streams that exercise the indices of faces
IdxLines ==
    { <<"v", SP, "1", SP, "2", SP, "3">>,
      <<"v", "n", SP, "0", SP, "0", SP, "1">>,
      <<"v", "t", SP, "0", SP, "1">>,
      <<"f", SP, "1", SP, "2", SP, "3">>,
      <<"f", SP, "-", "1", SP, "-", "2", SP, "-", "3">>,
      <<"f", SP, "0", SP, "1", "/", "1", SP, "2", "/", "/", "2">>,
      <<"f", SP, "1", "/", "1", "/", "1", SP, "-", "1", "/", "-", "1", "/", "-", "1", SP, "2", "/", "2", "/", "2">>,
      <<"f", SP, "3", "/", "2", "/", "1", SP, "-", "2", "/", "/", "-", "1", SP, "5">>,
      <<"x", SP, "1">> }

\* the lines of the streams that exercise the numbers of v, vn and vt
RealLines ==
    { <<"v", SP, "1", SP, "2", SP, "3">>,
      <<"v", SP, "1">>,
      <<"v", SP>>,
      <<"v", SP, "1", "x", SP, "2", SP, "3">>,
      <<"v", SP, "x", SP, "2">>,
      <<"v", SP, "1", "e", SP, "5", SP, "-", "2", ".", "5">>,
      <<"v", SP, "1", SP, "2", SP, "3", SP, "4">>,
      <<"v", SP, SP, "1", TAB, "2">>,
      <<"v", "n", SP, ".", "5", SP, "2", "e", "1", SP, "1", ".", "e", "1">>,
      <<"v", "n", SP, "1", ".", "5", ".", "2", SP, "7">>,
      <<"v", "t", SP, "1", SP, "2", SP, "3">>,
      <<"v", "t", SP, "x", SP, "1">>,
      <<"v", "t", SP, "1", "e", "-", "1">>,
      <<>> }

\* an f line with UCharRange corners
PolygonLine ==
    <<"f">> \o
    [i \in 1..(2 * UCharRange) |->
        IF i % 2 = 1 THEN SP ELSE <<"1", "2", "3">>[1 + ((i \div 2) % 3)]]

\* the lines of the streams that exercise faces of every size
PolyLines ==
    { <<"f", SP, "1", SP, "2", SP, "3">>,
      <<"f", SP, "1", SP, "2", SP, "3", SP, "4">>,
      <<"f", SP, "1", SP, "2", SP, "3", SP, "4", SP, "5">>,
      <<"g", SP, "s">>,
      <<"u", "s", "e", "m", "t", "l", SP, "a">>,
      <<"o", SP, "t">>,
      PolygonLine }

\* the lines of the streams that hold one object of triangles
ObjectLines ==
    { <<"o", SP, "m", "y", SP, "b", "o", "x">>,
      <<"v", SP, "1", SP, "2", SP, "3">>,
      <<"f", SP, "1", SP, "1", SP, "1">>,
      <<"f", SP, "2", SP, "1", SP, "2">>,
      <<"f", SP, "1", SP, "2", SP, "1", SP, "2">>,
      <<"g", SP, "b", "o", "x">> }

\* the lines of the material libraries LoadMtl is stepped through
MtlFileLines ==
    { <<"n", "e", "w", "m", "t", "l", SP, "a">>,
      <<"n", "e", "w", "m", "t", "l", SP, "b">>,
      <<"d", SP, "0", ".", "5">>,
      <<"T", "r", SP, "0", ".", "3">>,
      <<"T", "r", SP, "1", "x">>,
      <<"K", "d", SP, "1", SP, "0", SP, "0">>,
      <<"N", "s", SP, "2">>,
      <<"m", "a", "p", "_", "K", "d", SP, "-", "c", "l", "a", "m", "p", SP, "o", "n", SP, "t", ".", "p", "n", "g">>,
      <<"X", "y", "z", SP, "1", "2", "3">>,
      <<"X", "y", "z", TAB, "1", SP, "2">>,
      <<"A", "b", "c", TAB, "7">>,
      <<"#", SP, "c", SP>> }

\* material libraries
LibraryA == << <<"n", "e", "w", "m", "t", "l", SP, "a">>,
               <<"K", "d", SP, "1", SP, "0", ".", "5", SP, "0">>,
               <<"n", "e", "w", "m", "t", "l", SP, "b">>,
               <<"d", SP, "0", ".", "5">> >>

\* what the caller's materials vector can hold as LoadObj is entered
CallerMaterial == [InitMaterial(UninitMaterial) EXCEPT !.name = <<"p">>]

InitialMaterials == {<<>>, <<CallerMaterial>>}

\* the file systems a MaterialFileReader can meet
FileSystems == {EmptyMap, <<"a">> :> LibraryA}

\* the streams a MaterialStreamReader can hold
GoodStream(lines) == [state |-> "good", lines |-> lines]
FailedStream == [state |-> "fail", lines |-> <<>>]

\* a stream whose bytes are left open
AnyStream == [state |-> "good", text |-> <<>>, pos |-> 0]

\* the locals of LoadObj as the line loop is entered
InitLocals ==
    /\ linebuf = <<>> /\ linebuf_data = <<NUL>>
    /\ nlines = 0
    /\ consumed = <<>>
    /\ v = <<>> /\ vn = <<>> /\ vt = <<>>
    /\ tags = <<>>
    /\ faceGroup = <<>>
    /\ name = <<>>
    /\ material_map = EmptyMap
    /\ material = 0 - 1
    /\ shape = EmptyShape
    /\ shapes = <<>>
    /\ err = <<>>
    /\ attrib = [vertices |-> <<>>, normals |-> <<>>, texcoords |-> <<>>]
    /\ mtl = MtlLocals

\* LoadObj without a material reader
NoReader ==
    /\ readMatFn = "null"
    /\ m_mtlBaseDir = <<>> /\ fsys = EmptyMap /\ m_inStream = FailedStream

\* the reader given to LoadObj
InitReader ==
    \/ NoReader
    \/ /\ readMatFn = "file"
       /\ m_mtlBaseDir = <<>> /\ fsys \in FileSystems /\ m_inStream = FailedStream
    \/ /\ readMatFn = "stream"
       /\ m_mtlBaseDir = <<>> /\ fsys = EmptyMap
       /\ m_inStream \in {GoodStream(LibraryA), FailedStream}

\* LoadObj over the streams of ObjLines
Init ==
    /\ alphabet = ObjLines /\ limit = MaxLines /\ history = FALSE
    /\ triangulate \in BOOLEAN
    /\ materials \in InitialMaterials
    /\ InitReader
    /\ InitLocals
    /\ inStream = AnyStream
    /\ pc = "reading"

Next ==
    \/ HandleV
    \/ HandleVn
    \/ HandleVt
    \/ HandleF
    \/ HandleUsemtl
    \/ HandleMtllib
    \/ HandleG
    \/ HandleO
    \/ HandleSkip
    \/ EndOfStream

Spec == Init /\ [][Next]_vars

\* LoadObj over the streams of IdxLines
InitIdx ==
    /\ alphabet = IdxLines /\ limit = MaxIdxLines /\ history = FALSE
    /\ triangulate \in BOOLEAN
    /\ materials = <<>>
    /\ NoReader
    /\ InitLocals
    /\ inStream = AnyStream
    /\ pc = "reading"

NextIdx ==
    \/ HandleV
    \/ HandleVn
    \/ HandleVt
    \/ HandleF
    \/ HandleSkip
    \/ EndOfStream

SpecIdx == InitIdx /\ [][NextIdx]_vars

\* LoadObj over the streams of RealLines
InitReal ==
    /\ alphabet = RealLines /\ limit = MaxRealLines /\ history = TRUE
    /\ triangulate = TRUE
    /\ materials = <<>>
    /\ NoReader
    /\ InitLocals
    /\ inStream = AnyStream
    /\ pc = "reading"

NextReal ==
    \/ HandleV
    \/ HandleVn
    \/ HandleVt
    \/ HandleSkip
    \/ EndOfStream

SpecReal == InitReal /\ [][NextReal]_vars

\* LoadObj over the streams of PolyLines
InitPoly ==
    /\ alphabet = PolyLines /\ limit = MaxPolyLines /\ history = FALSE
    /\ triangulate \in BOOLEAN
    /\ materials = <<>>
    /\ NoReader
    /\ InitLocals
    /\ inStream = AnyStream
    /\ pc = "reading"

NextPoly ==
    \/ HandleF
    \/ HandleUsemtl
    \/ HandleG
    \/ HandleO
    \/ EndOfStream

SpecPoly == InitPoly /\ [][NextPoly]_vars

\* LoadObj over the streams of ObjectLines
InitObject ==
    /\ alphabet = ObjectLines /\ limit = MaxObjectLines /\ history = TRUE
    /\ triangulate \in BOOLEAN
    /\ materials = <<>>
    /\ NoReader
    /\ InitLocals
    /\ inStream = AnyStream
    /\ pc = "reading"

NextObject ==
    \/ HandleV
    \/ HandleF
    \/ HandleG
    \/ HandleO
    \/ EndOfStream

SpecObject == InitObject /\ [][NextObject]_vars

\* LoadMtl over the libraries of MtlFileLines
InitMtl ==
    /\ alphabet = MtlFileLines /\ limit = MaxMtlLines /\ history = TRUE
    /\ triangulate = TRUE
    /\ materials \in InitialMaterials
    /\ NoReader
    /\ InitLocals
    /\ inStream = AnyStream
    /\ pc = "mtl_reading"

NextMtl ==
    \/ MtlNewmtl
    \/ MtlColor
    \/ MtlScalar
    \/ MtlD
    \/ MtlTr
    \/ MtlTexture
    \/ MtlUnknown
    \/ MtlSkip
    \/ MtlEnd

SpecMtl == InitMtl /\ [][NextMtl]_vars

(***************************************************************************)
(* Inputs for shapes and tags.                                             *)
(***************************************************************************)
MaxShapeLines == 4

\* the lines of the streams that exercise shapes and tags
ShapeLines ==
    { <<"f", SP, "1", SP, "2", SP, "3">>,
      <<"f", SP, "1", SP, "2">>,
      <<"g", SP, "s">>,
      <<"o", SP, "t">>,
      <<"t", SP, "a", SP, "1", "/", "0", "/", "0", SP, "5">>,
      <<"t", SP, "b">>,
      <<"f", SP, "1", SP, "5", "0", "0", "0", "0", "/", "0", "/", "0", SP, "9">> }

\* LoadObj over the streams of ShapeLines
InitShape ==
    /\ alphabet = ShapeLines /\ limit = MaxShapeLines /\ history = FALSE
    /\ triangulate \in BOOLEAN
    /\ materials = <<>>
    /\ NoReader
    /\ InitLocals
    /\ inStream = AnyStream
    /\ pc = "reading"

NextShape ==
    \/ HandleF
    \/ HandleG
    \/ HandleO
    \/ HandleT
    \/ EndOfStream

SpecShape == InitShape /\ [][NextShape]_vars

(***************************************************************************)
(* Inputs for the two entries of LoadObj and for material libraries.       *)
(***************************************************************************)
MaxFileLines == 3

\* the lines of the streams that exercise the return value and mtllib; the
\* t line reads its counts from what the line before left in linebuf
FileLines ==
    { <<"v", SP, "1", SP, "2", SP, "3">>,
      <<"v", SP, "x">>,
      <<"f", SP, "1", SP, "2", SP, "3">>,
      <<"f", SP, "a", "/", "b", SP, "7">>,
      <<"x", "y", "z", SP, "1">>,
      <<"m", "t", "l", "l", "i", "b", SP, "a", SP, "b">>,
      <<"m", "t", "l", "l", "i", "b", SP, "b", SP, "a">>,
      <<"m", "t", "l", "l", "i", "b", SP, "x", SP, "a">>,
      <<"m", "t", "l", "l", "i", "b", SP, "x", SP, "y">>,
      <<"u", "s", "e", "m", "t", "l", SP, "c">>,
      <<"#", "x", "x", "x", "-", "1", "/", "0", "/", "0", SP, "x">>,
      <<"t", SP, "a">> }

LibraryB == << <<"n", "e", "w", "m", "t", "l", SP, "c">>, <<"N", "s", SP, "2">> >>

\* the file systems with two libraries
LibFileSystems == {EmptyMap, <<"a">> :> LibraryA, (<<"a">> :> LibraryA) @@ (<<"b">> :> LibraryB)}

\* what the caller's output parameters can hold as the file-based LoadObj is entered
CallerOutputs ==
    \/ shapes = <<>> /\ err = <<>>
           /\ attrib = [vertices |-> <<>>, normals |-> <<>>, texcoords |-> <<>>]
    \/ shapes = <<EmptyShape>> /\ err = <<WarnEmpty>>
           /\ attrib = [vertices |-> <<OneReal, OneReal, OneReal>>, normals |-> <<>>,
                        texcoords |-> <<>>]

\* either entry of LoadObj over the streams of FileLines: the file-based one
\* with a file that opens or not, the stream-based one with any reader
InitFile ==
    /\ alphabet = FileLines /\ limit = MaxFileLines /\ history = FALSE
    /\ triangulate \in BOOLEAN
    /\ materials \in InitialMaterials
    /\ linebuf = <<>> /\ linebuf_data = <<NUL>> /\ nlines = 0 /\ consumed = <<>>
    /\ v = <<>> /\ vn = <<>> /\ vt = <<>>
    /\ tags = <<>> /\ faceGroup = <<>> /\ name = <<>>
    /\ material_map = EmptyMap /\ material = 0 - 1
    /\ shape = EmptyShape
    /\ mtl = MtlLocals
    /\ m_mtlBaseDir = <<>>
    /\ \/ /\ pc = "opening"
          /\ inStream \in {AnyStream, [AnyStream EXCEPT !.state = "fail"]}
          /\ readMatFn = "null" /\ fsys \in LibFileSystems /\ m_inStream = FailedStream
          /\ CallerOutputs
       \/ /\ pc = "reading"
          /\ inStream = AnyStream
          /\ shapes = <<>> /\ err = <<>>
          /\ attrib = [vertices |-> <<>>, normals |-> <<>>, texcoords |-> <<>>]
          /\ \/ readMatFn = "null" /\ fsys = EmptyMap /\ m_inStream = FailedStream
             \/ readMatFn = "file" /\ fsys \in LibFileSystems /\ m_inStream = FailedStream
             \/ /\ readMatFn = "stream" /\ fsys = EmptyMap
                /\ m_inStream \in {GoodStream(LibraryA), FailedStream}

NextFile ==
    \/ LoadObjFile
    \/ HandleV
    \/ HandleF
    \/ HandleUsemtl
    \/ HandleMtllib
    \/ HandleSkip
    \/ HandleT
    \/ EndOfStream

SpecFile == InitFile /\ [][NextFile]_vars

(***************************************************************************)
(* Inputs for texture directives.                                          *)
(***************************************************************************)
MaxTexLines == 3

\* the lines of the libraries that exercise texture names and options
TexLines ==
    { <<"n", "e", "w", "m", "t", "l", SP, "a">>,
      <<"m", "a", "p", "_", "K", "d", SP, "a", ".", "p", "n", "g">>,
      <<"m", "a", "p", "_", "K", "d", SP, "a", ".", "p", "n", "g", SP, "b", ".", "p", "n", "g">>,
      <<"m", "a", "p", "_", "K", "d", SP, "-", "c", "l", "a", "m", "p", SP, "o", "n", SP, "a", ".", "p", "n", "g">>,
      <<"m", "a", "p", "_", "K", "s", SP, "a", ".", "p", "n", "g", SP, "-", "c", "l", "a", "m", "p", SP, "o", "n">>,
      <<"b", "u", "m", "p", SP, "-", "b", "m", SP, "2", SP, "b", ".", "p", "n", "g">>,
      <<"d", "i", "s", "p", SP, "d", ".", "p", "n", "g", SP, "-", "o", SP, "1", SP, "2", SP, "3", SP, "e", ".", "p", "n", "g">>,
      <<"r", "e", "f", "l", SP, "-", "m", "m", SP, "0", SP, "1", SP, "r", ".", "p", "n", "g">>,
      <<"n", "o", "r", "m", SP, "-", "s", SP, "1", SP, "1", SP, "1", SP, "n", ".", "p", "n", "g", SP, "-", "t", SP, "0", SP, "0", SP, "0">> }

\* LoadMtl over the libraries of TexLines
InitTex ==
    /\ alphabet = TexLines /\ limit = MaxTexLines /\ history = FALSE
    /\ triangulate = TRUE
    /\ materials = <<>>
    /\ NoReader
    /\ InitLocals
    /\ inStream = AnyStream
    /\ pc = "mtl_reading"

NextTex ==
    \/ MtlNewmtl
    \/ MtlTexture
    \/ MtlEnd

SpecTex == InitTex /\ [][NextTex]_vars

(***************************************************************************)
(* Inputs given as text: lines joined by a terminator.                     *)
(***************************************************************************)
MaxTextLines == 3

\* the lines of the OBJ texts; one holds a byte 0
ObjTextLines ==
    { <<"v", SP, "1", SP, "2", SP, "3">>,
      <<"f", SP, "1", SP, "1", SP, "1">>,
      <<"g", SP, "s">>,
      <<"#", NUL, "c">>,
      <<>> }

\* the lines of the MTL texts
MtlTextLines ==
    { <<"n", "e", "w", "m", "t", "l", SP, "a">>,
      <<"d", SP, "0", ".", "5">>,
      <<"#", SP, "c">>,
      <<>> }

\* the sequences of at most MaxTextLines lines of L
LineSeqs(L) == UNION {[1..n -> L] : n \in 0..MaxTextLines}

Terminators == {<<LF>>, <<CR, LF>>, <<CR>>}

\* a last line can go without terminator when it is not empty
Proper(lines, terminated) == terminated \/ (lines /= <<>> /\ lines[Len(lines)] /= <<>>)

\* the text of `lines`, each ended by T, the last one only when `terminated`
RECURSIVE Join(_, _, _)
Join(lines, T, terminated) ==
    IF lines = <<>> THEN <<>>
    ELSE IF Len(lines) = 1 THEN Head(lines) \o (IF terminated THEN T ELSE <<>>)
    ELSE Head(lines) \o T \o Join(Tail(lines), T, terminated)

Texts(L) ==
    {Join(l, T, f) : <<l, T, f>> \in
        {x \in LineSeqs(L) \X Terminators \X BOOLEAN : Proper(x[1], x[3])}}

\* LoadObj or LoadMtl over a stream of bytes
InitText ==
    /\ alphabet = {} /\ limit = MaxTextLines /\ history = TRUE
    /\ triangulate = TRUE
    /\ materials = <<>>
    /\ NoReader
    /\ InitLocals
    /\ \/ pc = "reading" /\ inStream \in {[state |-> "good", text |-> t, pos |-> 1] : t \in Texts(ObjTextLines)}
       \/ pc = "mtl_reading" /\ inStream \in {[state |-> "good", text |-> t, pos |-> 1] : t \in Texts(MtlTextLines)}

NextText ==
    \/ HandleV
    \/ HandleF
    \/ HandleG
    \/ HandleSkip
    \/ EndOfStream
    \/ MtlNewmtl
    \/ MtlD
    \/ MtlSkip
    \/ MtlEnd

SpecText == InitText /\ [][NextText]_vars


(***************************************************************************)
(* Inputs for the names of shapes and materials, read through the          *)
(* file-based LoadObj by a caller whose output objects are fresh or hold   *)
(* what an earlier call left.                                              *)
(***************************************************************************)
MaxNameLines == 4

\* the lines of the streams that exercise keywords, names and trailing blanks
NameLines ==
    { <<"v", SP, "1", SP, "2", SP, "3">>,
      <<"v", "n", SP, "0", SP, "0", SP, "1">>,
      <<"v", "t", SP, "0", SP, "1">>,
      <<"f", SP, "1", SP, "2", SP, "3">>,
      <<"m", "t", "l", "l", "i", "b", SP, "a">>,
      <<"u", "s", "e", "m", "t", "l", SP, "a">>,
      <<"u", "s", "e", "m", "t", "l", SP, "a", SP>>,
      <<"g", SP, "a", SP, "b", SP, "c">>,
      <<"g", SP, SP>>,
      <<"g">>,
      <<"o", SP, "t", SP, "u">>,
      <<"o", SP, "t", SP, "u", TAB>>,
      <<"o">> }

\* the materials vector as an earlier call that loaded LibraryA left it
LeftMaterials == LoadMtl(EmptyMap, <<>>, LibraryA).materials

\* the file-based LoadObj over the streams of NameLines
InitName ==
    /\ alphabet = NameLines /\ limit = MaxNameLines /\ history = TRUE
    /\ triangulate = TRUE
    /\ materials \in {<<>>, LeftMaterials}
    /\ CallerOutputs
    /\ linebuf = <<>> /\ linebuf_data = <<NUL>> /\ nlines = 0 /\ consumed = <<>>
    /\ v = <<>> /\ vn = <<>> /\ vt = <<>>
    /\ tags = <<>> /\ faceGroup = <<>> /\ name = <<>>
    /\ material_map = EmptyMap /\ material = 0 - 1
    /\ shape = EmptyShape
    /\ mtl = MtlLocals
    /\ m_mtlBaseDir = <<>>
    /\ pc = "opening"
    /\ inStream = AnyStream
    /\ readMatFn = "null" /\ fsys = (<<"a">> :> LibraryA) /\ m_inStream = FailedStream

NextName ==
    \/ LoadObjFile
    \/ HandleV
    \/ HandleVn
    \/ HandleVt
    \/ HandleF
    \/ HandleUsemtl
    \/ HandleMtllib
    \/ HandleG
    \/ HandleO
    \/ HandleSkip
    \/ EndOfStream

SpecName == InitName /\ [][NextName]_vars

(***************************************************************************)
(* Inputs for the loops: texts whose lines keep the loops inside a line    *)
(* busy, read to the end by a call that always takes its next step.        *)
(***************************************************************************)
\* f and g lines with stray '/' characters and tokens made of separators
LoopObjLines ==
    { <<"f", SP, "/", SP, "/", "/", "1">>,
      <<"f", SP, "1", "/", SP, "a", "/", "b", "/", "c", "/", "d">>,
      <<"f", SP, TAB>>,
      <<"g", SP, TAB, SP>>,
      <<"g", SP, "a", TAB, "b", SP>> }

\* texture lines with flags that lack arguments
LoopMtlLines ==
    { <<"m", "a", "p", "_", "K", "d", SP, "-", "c", "l", "a", "m", "p">>,
      <<"m", "a", "p", "_", "K", "d", SP, "-", "m", "m", SP, "1">>,
      <<"b", "u", "m", "p", SP, "-", "b", "m", SP, SP, "-", "o", SP, "1", SP, "a">>,
      <<"m", "a", "p", "_", "K", "d", SP, "-", "t", "y", "p", "e", SP, "/", SP, "-", "i", "m", "f", "c", "h", "a", "n">> }

MaxLoopLines == 2

\* the texts of at most MaxLoopLines lines of L, the last line with or without
\* its terminator
LoopTexts(L) ==
    {Join(l, <<LF>>, f) : <<l, f>> \in
        {x \in (UNION {[1..n -> L] : n \in 0..MaxLoopLines}) \X BOOLEAN : Proper(x[1], x[2])}}

\* LoadObj or LoadMtl over a stream of bytes made of these lines
InitLoop ==
    /\ alphabet = {} /\ limit = MaxLoopLines /\ history = TRUE
    /\ triangulate \in BOOLEAN
    /\ materials = <<>>
    /\ NoReader
    /\ InitLocals
    /\ \/ pc = "reading" /\ inStream \in {[state |-> "good", text |-> t, pos |-> 1] : t \in LoopTexts(LoopObjLines)}
       \/ pc = "mtl_reading" /\ inStream \in {[state |-> "good", text |-> t, pos |-> 1] : t \in LoopTexts(LoopMtlLines)}

NextLoop ==
    \/ HandleF
    \/ HandleG
    \/ EndOfStream
    \/ MtlTexture
    \/ MtlEnd

\* A call that has not returned goes on with its next statement: the code
\* after a loop runs once the peek has given -1, and the body of a line loop
\* runs as long as the stream offers a line (weak fairness of the line steps,
\* which are enabled exactly when a line is offered)
SpecLoop ==
    /\ InitLoop /\ [][NextLoop]_vars
    /\ WF_vars(EndOfStream) /\ WF_vars(MtlEnd)
    /\ ([]<>(Offered = {}) \/ []<><<HandleF \/ HandleG \/ MtlTexture>>_vars)
(***************************************************************************)
(* Properties.  The input is read here by definitions of its own: words    *)
(* are the maximal runs of characters other than blank and tab.            *)
(***************************************************************************)
Blank == {SP, TAB}

\* the positions at which a word of s starts, from position `from` on
WordStarts(s, from) ==
    {i \in from..Len(s) : s[i] \notin Blank /\ (i = from \/ s[i - 1] \in Blank)}

\* the last position of the word that starts at i
WordEnd(s, i) ==
    CHOOSE j \in i..Len(s) :
        /\ \A k \in i..j : s[k] \notin Blank
        /\ j = Len(s) \/ s[j + 1] \in Blank

\* the k-th smallest element of a set of positions
Nth(S, k) == CHOOSE i \in S : Cardinality({j \in S : j < i}) = k - 1

WordAt(s, i) == SubSeq(s, i, WordEnd(s, i))

\* the words of s from position `from` on, in order
Words(s, from) ==
    [k \in 1..Cardinality(WordStarts(s, from)) |-> WordAt(s, Nth(WordStarts(s, from), k))]

\* the text of a line after its keyword of n characters and the blank that ends it
Arguments(line, n) == Words(StripEol(line), FirstToken(StripEol(line)) + n + 1)

\* a run of digits read in base ten
RECURSIVE Decimal(_, _)
Decimal(digits, acc) ==
    IF digits = <<>> THEN acc
    ELSE Decimal(Tail(digits), 10 * acc + DigitVal(Head(digits)))

\* an optional '-' and a run of digits
SignedDecimal(w) == IF w[1] = "-" THEN 0 - Decimal(Tail(w), 0) ELSE Decimal(w, 0)

IsSignedDecimal(w) ==
    /\ w /= <<>>
    /\ \A k \in 1..Len(w) : IS_DIGIT(w[k]) \/ (k = 1 /\ w[k] = "-" /\ Len(w) > 1)

\* every index of every emitted shape satisfies P
AllIndices(P(_)) ==
    \A i \in 1..Len(shapes) :
        \A j \in 1..Len(shapes[i].mesh.indices) : P(shapes[i].mesh.indices[j])

AbsentOrBelow(idx, N) == idx = 0 - 1 \/ (0 <= idx /\ idx < N)

InBounds(idx) ==
    /\ AbsentOrBelow(idx.vertex_index, Len(attrib.vertices) \div 3)
    /\ AbsentOrBelow(idx.texcoord_index, Len(attrib.texcoords) \div 2)
    /\ AbsentOrBelow(idx.normal_index, Len(attrib.normals) \div 3)

\* C1: after LoadObj has returned, each component of every index of every
\* emitted shape is -1 or lies in [0, N), N the final element count of its array.
\* The code does not keep this: fixIndex never looks at the bound.
C1_IndicesInBounds == pc = "done" => AllIndices(InBounds)

\* C2: after LoadObj has returned, every material id of every emitted shape is
\* -1 or an index into materials, whatever the caller's vector held.
C2_MaterialIdsValid ==
    pc = "done" =>
        \A i \in 1..Len(shapes) :
            \A j \in 1..Len(shapes[i].mesh.material_ids) :
                AbsentOrBelow(shapes[i].mesh.material_ids[j], Len(materials))

\* LoadObj has returned a face that carries a material loaded behind another one
C2_Witness ==
    /\ pc = "done"
    /\ \E i \in 1..Len(shapes) :
           \E j \in 1..Len(shapes[i].mesh.material_ids) :
               shapes[i].mesh.material_ids[j] >= 1

\* the three fields of a face vertex reference, <<>> for a field that is absent
Slashes(w) == {i \in 1..Len(w) : w[i] = "/"}

Field(w, k) ==
    IF k = 1
    THEN IF Slashes(w) = {} THEN w ELSE SubSeq(w, 1, Nth(Slashes(w), 1) - 1)
    ELSE IF Cardinality(Slashes(w)) < k - 1 THEN <<>>
    ELSE SubSeq(w, Nth(Slashes(w), k - 1) + 1,
                IF Cardinality(Slashes(w)) >= k THEN Nth(Slashes(w), k) - 1 ELSE Len(w))

\* the mapping of a file index n read while the array holds count elements
Mapped(n, count, stored) ==
    /\ (1 <= n /\ n <= count) => stored = n - 1
    /\ n < 0 => stored = count + n
    /\ n = 0 => stored = 0

\* field k of reference w is stored as the claim says; an absent field is not
\* covered by the claim
FieldMapped(w, k, count, stored) ==
    IsSignedDecimal(Field(w, k)) => Mapped(SignedDecimal(Field(w, k)), count, stored)

ReferenceMapped(w, vi) ==
    /\ FieldMapped(w, 1, Len(v) \div 3, vi.v_idx)
    /\ FieldMapped(w, 2, Len(vt) \div 2, vi.vt_idx)
    /\ FieldMapped(w, 3, Len(vn) \div 3, vi.vn_idx)

\* an f line has just been handled: the arrays still hold what they held as
\* it was read and its face is the last pending one
FaceLineRead == pc = "reading" /\ nlines > 0 /\ ObjDirective(linebuf) = "f"

LastFace == faceGroup[Len(faceGroup)]

\* C3: each component of each vertex reference of an f line is stored by the
\* rule n -> n - 1 for 1 <= n <= count, -k -> count - k, 0 -> 0, with count the
\* running element count of that component's own array.
C3_IndexMapping ==
    FaceLineRead =>
        /\ Len(LastFace) = Len(Arguments(linebuf, 1))
        /\ \A k \in 1..Len(LastFace) : ReferenceMapped(Arguments(linebuf, 1)[k], LastFace[k])

\* an f line was read with a reference whose position, texcoord and normal are
\* all negative, while the three arrays hold different numbers of elements
C3_Witness ==
    /\ FaceLineRead
    /\ Len(v) \div 3 /= Len(vn) \div 3
    /\ Len(vn) \div 3 /= Len(vt) \div 2
    /\ \E k \in 1..Len(LastFace) :
           \A c \in 1..3 :
               /\ IsSignedDecimal(Field(Arguments(linebuf, 1)[k], c))
               /\ SignedDecimal(Field(Arguments(linebuf, 1)[k], c)) < 0

\* a face vertex reference as the mesh holds it
Corner(vi) ==
    [vertex_index |-> vi.v_idx, normal_index |-> vi.vn_idx, texcoord_index |-> vi.vt_idx]

\* triangle t of the fan of an n-gon [i0 .. i(n-1)] is (i0, it, i(t+1)), t = 1..n-2
FanOf(face) ==
    [j \in 1..(3 * (Len(face) - 2)) |->
        Corner(face[IF (j - 1) % 3 = 0 THEN 1 ELSE ((j - 1) \div 3) + 1 + ((j - 1) % 3)])]

\* what the mesh is to receive for one face of three corners or more
IndicesOf(face) ==
    IF triangulate THEN FanOf(face) ELSE [k \in 1..Len(face) |-> Corner(face[k])]

VertexCountsOf(face) ==
    IF triangulate THEN [t \in 1..(Len(face) - 2) |-> 3] ELSE <<Len(face)>>

RECURSIVE IndicesOfAll(_, _)
IndicesOfAll(faces, i) ==
    IF i > Len(faces) THEN <<>> ELSE IndicesOf(faces[i]) \o IndicesOfAll(faces, i + 1)

RECURSIVE VertexCountsOfAll(_, _)
VertexCountsOfAll(faces, i) ==
    IF i > Len(faces) THEN <<>>
    ELSE VertexCountsOf(faces[i]) \o VertexCountsOfAll(faces, i + 1)

\* a step that writes the pending faces to a mesh
Flush == faceGroup /= <<>> /\ faceGroup' = <<>>

\* the mesh the pending faces were written to: the one of the shape just
\* emitted, or the one of the shape that stays open
Received == IF Len(shapes') > Len(shapes) THEN shapes'[Len(shapes')].mesh ELSE shape'.mesh

\* C4: every face of n >= 3 references gives, with triangulation, the n - 2
\* triangles (i0, i(k-1), ik) in order and, without, one record of its n
\* references in input order with vertex count n.  The code records the count
\* in an unsigned char.
C4_FacesWritten ==
    [][(Flush /\ \A i \in 1..Len(faceGroup) : Len(faceGroup[i]) >= 3) =>
          /\ Received.indices = shape.mesh.indices \o IndicesOfAll(faceGroup, 1)
          /\ Received.num_face_vertices =
                 shape.mesh.num_face_vertices \o VertexCountsOfAll(faceGroup, 1)]_vars

\* the face records the pending faces give
RECURSIVE Records(_, _)
Records(faces, i) ==
    IF i > Len(faces) THEN 0
    ELSE (IF ~triangulate THEN 1
          ELSE IF Len(faces[i]) >= 3 THEN Len(faces[i]) - 2 ELSE 0)
         + Records(faces, i + 1)

\* the id the name table gives for the name on a usemtl line
ResolvedId(buf) ==
    IF Rest(buf, FirstToken(buf) + 7) \in DOMAIN material_map
    THEN material_map[Rest(buf, FirstToken(buf) + 7)]
    ELSE 0 - 1

\* the step that handles a usemtl line
UsemtlStep == pc = "reading" /\ nlines' = nlines + 1 /\ ObjDirective(linebuf') = "usemtl"

\* the ids the step added to the mesh that received the pending faces
IdsAdded ==
    SubSeq(Received.material_ids, Len(shape.mesh.material_ids) + 1,
           Len(Received.material_ids))

\* C5: a usemtl that resolves to another id writes every pending face to the
\* open shape under the prior id and only then changes the id; one that
\* resolves to the current id changes nothing.  Pending faces are therefore
\* always faces read under the current id, and every step that writes them
\* writes them under it.
C5_UsemtlFlush ==
    [][/\ UsemtlStep =>
            IF ResolvedId(linebuf') /= material
            THEN /\ material' = ResolvedId(linebuf')
                 /\ faceGroup' = <<>>
                 /\ shapes' = shapes
                 /\ shape'.mesh.material_ids =
                        shape.mesh.material_ids \o [j \in 1..Records(faceGroup, 1) |-> material]
                 /\ Len(shape'.mesh.num_face_vertices) =
                        Len(shape.mesh.num_face_vertices) + Records(faceGroup, 1)
            ELSE UNCHANGED <<material, faceGroup, shape, shapes>>
       /\ Flush => /\ Len(IdsAdded) = Records(faceGroup, 1)
                   /\ \A j \in 1..Len(IdsAdded) : IdsAdded[j] = material
       /\ material' /= material => UsemtlStep]_vars

\* a usemtl line has just changed the id, and the faces read before it are in
\* the open shape under the prior id
C5_Witness ==
    /\ pc = "reading" /\ nlines > 0 /\ ObjDirective(linebuf) = "usemtl"
    /\ faceGroup = <<>>
    /\ material = ResolvedId(linebuf)
    /\ shape.mesh.material_ids /= <<>>
    /\ shape.mesh.material_ids[Len(shape.mesh.material_ids)] /= material

\* the candidates of a mtllib line
Candidates(buf) == SplitString(Rest(buf, FirstToken(buf) + 7), 1, SP, <<>>)

\* no candidate of the line can be resolved by the reader LoadObj was given
Unresolved(buf) ==
    \/ /\ readMatFn = "file"
       /\ \A k \in 1..Len(Candidates(buf)) :
              (m_mtlBaseDir \o Candidates(buf)[k]) \notin DOMAIN fsys
    \/ /\ readMatFn = "stream"
       /\ m_inStream.state = "fail"

\* the step that handles a mtllib line
MtllibStep == pc = "reading" /\ nlines' = nlines + 1 /\ ObjDirective(linebuf') = "mtllib"

LinesOf(d) == {i \in 1..Len(consumed) : ObjDirective(StripEol(consumed[i])) = d}

\* a vertex reference that is a plain index into the positions of the input
InRange(w) ==
    /\ IsSignedDecimal(w)
    /\ 1 <= SignedDecimal(w) /\ SignedDecimal(w) <= Cardinality(LinesOf("v"))

\* a triangle f line with in-range indices
TriangleLine(line) ==
    /\ Len(Arguments(line, 1)) = 3
    /\ \A k \in 1..3 : InRange(Arguments(line, 1)[k])

\* the input of C7: one o line, v lines and triangle f lines, every f line
\* after the o line, and triangulation enabled
OneObjectInput ==
    /\ triangulate
    /\ Cardinality(LinesOf("o")) = 1
    /\ \A i \in 1..Len(consumed) : i \in LinesOf("o") \cup LinesOf("v") \cup LinesOf("f")
    /\ \A i \in LinesOf("f") :
           /\ TriangleLine(consumed[i])
           /\ \A o \in LinesOf("o") : o < i

\* NAME of the o line
ObjectName ==
    Rest(StripEol(consumed[Nth(LinesOf("o"), 1)]),
         FirstToken(StripEol(consumed[Nth(LinesOf("o"), 1)])) + 2)

\* one shape, named by the o line, of F triangles without a material
OneShape ==
    /\ Len(shapes) = 1
    /\ shapes[1].name = ObjectName
    /\ Len(shapes[1].mesh.indices) = 3 * Cardinality(LinesOf("f"))
    /\ Len(shapes[1].mesh.material_ids) = Cardinality(LinesOf("f"))
    /\ \A j \in 1..Len(shapes[1].mesh.material_ids) : shapes[1].mesh.material_ids[j] = 0 - 1

\* C7 as stated, for every number F of f lines: the input gives exactly one
\* shape.  It fails for F = 0, where no shape is emitted.
C7_OneShapeAnyF == (pc = "done" /\ OneObjectInput) => OneShape

\* C7 for F >= 1: one o NAME line, v lines and F >= 1 triangle f lines after
\* it give exactly one shape named NAME with 3F indices and every material
\* id -1.
C7_OneShape ==
    (pc = "done" /\ OneObjectInput /\ Cardinality(LinesOf("f")) >= 1) => OneShape

\* LoadObj has returned for an object of two triangles
C7_Witness ==
    /\ pc = "done" /\ OneObjectInput
    /\ Cardinality(LinesOf("f")) = 2
    /\ Len(shapes) = 1

\* the value the number scanner gives for a word taken alone: that of its
\* numeric prefix, 0.0 when it rejects the word
Scanned(w) ==
    IF tryParseDouble(w, 1, Len(w) + 1).ok
    THEN ToFloat(tryParseDouble(w, 1, Len(w) + 1).val)
    ELSE ZeroReal

AllDigits(w, a, b) == \A k \in a..b : IS_DIGIT(w[k])

\* w from position c + 1 on is an exponent: e or E, an optional sign, digits
ExponentFrom(w, c) ==
    /\ c + 2 <= Len(w)
    /\ w[c + 1] \in {"e", "E"}
    /\ IF w[c + 2] \in {"+", "-"}
       THEN c + 3 <= Len(w) /\ AllDigits(w, c + 3, Len(w))
       ELSE AllDigits(w, c + 2, Len(w))

\* the whole word is a number: optional sign, digits, optional fraction,
\* optional exponent
ValidNumber(w) ==
    \E a \in 1..2 :
        /\ (a = 2) = (w /= <<>> /\ w[1] \in {"+", "-"})
        /\ \E b \in a..Len(w) :
               /\ AllDigits(w, a, b)
               /\ \E c \in b..Len(w) :
                      /\ c = b \/ (w[b + 1] = "." /\ AllDigits(w, b + 2, c))
                      /\ c = Len(w) \/ ExponentFrom(w, c)

\* component i of a line whose keyword has n characters, by the rule R for
\* the value of a word
ComponentBy(R(_), line, n, i) ==
    IF i <= Len(Arguments(line, n)) THEN R(Arguments(line, n)[i]) ELSE ZeroReal

\* the value of a word as C10 states it: its value when the whole word is a
\* number, 0.0 when it is malformed
WholeWord(w) == IF ValidNumber(w) THEN Scanned(w) ELSE ZeroReal

\* the last n elements of an array
LastOf(a, n) == SubSeq(a, Len(a) - n + 1, Len(a))

\* the arrays hold 3, 3 and 2 floats for each line read, and the line just read
\* gave the components R prescribes
ComponentsBy(R(_)) ==
    /\ pc = "reading" =>
          /\ Len(v) = 3 * Cardinality(LinesOf("v"))
          /\ Len(vn) = 3 * Cardinality(LinesOf("vn"))
          /\ Len(vt) = 2 * Cardinality(LinesOf("vt"))
          /\ Len(consumed) \in LinesOf("v") =>
                 LastOf(v, 3) = [i \in 1..3 |-> ComponentBy(R, consumed[Len(consumed)], 1, i)]
          /\ Len(consumed) \in LinesOf("vn") =>
                 LastOf(vn, 3) = [i \in 1..3 |-> ComponentBy(R, consumed[Len(consumed)], 2, i)]
          /\ Len(consumed) \in LinesOf("vt") =>
                 LastOf(vt, 2) = [i \in 1..2 |-> ComponentBy(R, consumed[Len(consumed)], 2, i)]
    /\ pc = "done" =>
          /\ Len(attrib.vertices) = 3 * Cardinality(LinesOf("v"))
          /\ Len(attrib.normals) = 3 * Cardinality(LinesOf("vn"))
          /\ Len(attrib.texcoords) = 2 * Cardinality(LinesOf("vt"))

\* C10 as stated: component i is the value of the i-th word when the word is
\* a valid number and 0.0 when it is missing or malformed.  It fails for a word
\* that starts as a number and goes on otherwise, such as 1x.
C10_WholeWordComponents == ComponentsBy(WholeWord)

\* C10 with the value the scanner gives: every v and vn line appends 3 floats
\* and every vt line 2; component i is the value of the numeric prefix of the
\* i-th word, 0.0 when the word is missing or the scanner rejects it; no word
\* moves to another component and further words are ignored.
C10_Components == ComponentsBy(Scanned)

\* a v line was read whose first word is rejected and whose second is a
\* number: the rejected word gave 0.0 and the number stayed second
C10_Witness ==
    /\ pc = "reading" /\ Len(consumed) \in LinesOf("v")
    /\ Len(Arguments(consumed[Len(consumed)], 1)) = 2
    /\ ~tryParseDouble(Arguments(consumed[Len(consumed)], 1)[1], 1, 2).ok
    /\ LastOf(v, 3)[1] = ZeroReal
    /\ LastOf(v, 3)[2] /= ZeroReal

\* the lines read so far that LoadMtl takes for directive d, by position
MtlLinesOf(d) == {i \in 1..Len(consumed) : MtlDirective(MtlLinebuf(consumed[i])) = d}

\* lines i and j belong to the same material record: no newmtl line lies
\* after the first of them and up to the second
SameRecord(i, j) == \A k \in MtlLinesOf("newmtl") : ~(i < k /\ k <= j) /\ ~(j < k /\ k <= i)

\* the lines of directive d in the record that is open, or was open as the
\* stream ended
OpenLinesOf(d) == {i \in MtlLinesOf(d) : SameRecord(i, Len(consumed))}

Largest(S) == CHOOSE i \in S : \A j \in S : j <= i

\* the number on a d or Tr line, n the length of the keyword
NumberOn(line, n) ==
    IF Len(Words(MtlLinebuf(line), FirstToken(MtlLinebuf(line)) + n)) >= 1
    THEN Scanned(Words(MtlLinebuf(line), FirstToken(MtlLinebuf(line)) + n)[1])
    ELSE ZeroReal

\* the record the lines read so far describe: the open one, committed last
\* when the stream has ended
LastRecord == IF pc = "mtl_done" THEN materials[Len(materials)] ELSE mtl.material

\* some record read so far holds both a d and a Tr line
Conflict == \E i \in MtlLinesOf("d") : \E j \in MtlLinesOf("Tr") : SameRecord(i, j)

\* C6: a record with both d X and Tr Y, in either order, has dissolve X and
\* a warning is returned, which reaches err; with Tr Y alone the dissolve is
\* 1 - Y; no warning is produced unless one record holds both, lines of
\* different records never conflict.
C6_DissolveConflict ==
    pc \in {"mtl_reading", "mtl_done"} =>
        /\ (OpenLinesOf("d") /= {} /\ OpenLinesOf("Tr") /= {}) =>
               LastRecord.dissolve = NumberOn(consumed[Largest(OpenLinesOf("d"))], 1)
        /\ (OpenLinesOf("d") = {} /\ OpenLinesOf("Tr") /= {}) =>
               LastRecord.dissolve =
                   RealSub(OneReal, NumberOn(consumed[Largest(OpenLinesOf("Tr"))], 2))
        /\ Conflict = (mtl.ss /= <<>>)
        /\ pc = "mtl_done" => (Conflict = (err /= <<>>))

\* LoadMtl has returned for a library whose last record has Tr before d, the
\* record before it a d alone
C6_Witness ==
    /\ pc = "mtl_done"
    /\ \E i \in OpenLinesOf("Tr") : \E j \in OpenLinesOf("d") : i < j
    /\ \E i \in MtlLinesOf("newmtl") : i > 1
    /\ err /= <<>>

\* the line just read by LoadMtl is no recognised directive and has a blank or
\* a tab after its keyword
UnknownLineRead ==
    /\ pc = "mtl_reading" /\ consumed /= <<>>
    /\ MtlDirective(linebuf) = "unknown"
    /\ \E i \in FirstToken(linebuf)..Len(linebuf) : linebuf[i] \in Blank

\* the first blank or tab of the line, whichever comes first
FirstBlank(buf) ==
    CHOOSE i \in FirstToken(buf)..Len(buf) :
        buf[i] \in Blank /\ \A j \in FirstToken(buf)..(i - 1) : buf[j] \notin Blank

\* C8: an unrecognised line with whitespace after its keyword is stored in
\* unknown_parameter, the key being the text before the first blank or tab,
\* the value the rest of the line.  The code looks for a tab only in a line
\* that has no blank.
C8_UnknownStored ==
    UnknownLineRead =>
        /\ SubSeq(linebuf, FirstToken(linebuf), FirstBlank(linebuf) - 1)
               \in DOMAIN mtl.material.unknown_parameter
        /\ mtl.material.unknown_parameter[
               SubSeq(linebuf, FirstToken(linebuf), FirstBlank(linebuf) - 1)]
               = Rest(linebuf, FirstBlank(linebuf) + 1)

(***************************************************************************)
(* Properties of shapes and tags.                                          *)
(***************************************************************************)
\* C15: every shape of the output list has at least one face record.  The
\* code does not keep this: a flush of faces of fewer than three corners
\* under triangulation adds no face record and still reports success.
C15_ShapesHaveFaces ==
    \A i \in 1..Len(shapes) : Len(shapes[i].mesh.num_face_vertices) >= 1

\* a g or o line was read in this step
GroupStep ==
    pc = "reading" /\ nlines' = nlines + 1 /\ ObjDirective(linebuf') \in {"g", "o"}

\* C16: after every g or o directive the pending tag list is empty.  The
\* code does not keep this: neither directive touches tags.
C16_TagsCleared == [][GroupStep => tags' = <<>>]_vars

\* the line just handled is a t line with a name and a triple of counts
TagLineRead ==
    /\ pc = "reading" /\ nlines > 0 /\ ObjDirective(linebuf) = "t"
    /\ Len(Words(linebuf, FirstToken(linebuf) + 2)) >= 2

\* the tag as the words of the line `t NAME a/b/c ...` give it
TagRead(w, tag) ==
    /\ tag.name = w[1]
    /\ Len(tag.intValues) = Decimal(Field(w[2], 1), 0)
    /\ Len(tag.floatValues) = Decimal(Field(w[2], 2), 0)
    /\ Len(tag.stringValues) = Decimal(Field(w[2], 3), 0)
    /\ \A k \in 1..Len(tag.intValues) : tag.intValues[k] = SignedDecimal(w[2 + k])

\* C17: the tag appended for a line `t NAME a/b/c ...` has the name NAME and
\* a, b and c values taken from the tokens that follow.  The code does not
\* keep this: the name is the whole text after the keyword and the counts are
\* read from beyond the end of the line.
C17_TagRead ==
    TagLineRead => TagRead(Words(linebuf, FirstToken(linebuf) + 2), tags[Len(tags)])

\* the sum of a[lo..hi], by halves
RECURSIVE SumRange(_, _, _)
SumRange(a, lo, hi) ==
    IF lo > hi THEN 0
    ELSE IF lo = hi THEN a[lo]
    ELSE SumRange(a, lo, (lo + hi) \div 2) + SumRange(a, ((lo + hi) \div 2) + 1, hi)

SumOf(a) == SumRange(a, 1, Len(a))

MeshConsistent(mesh) ==
    /\ Len(mesh.num_face_vertices) = Len(mesh.material_ids)
    /\ SumOf(mesh.num_face_vertices) = Len(mesh.indices)
    /\ triangulate => \A k \in 1..Len(mesh.num_face_vertices) : mesh.num_face_vertices[k] = 3

\* C18: in every emitted shape num_face_vertices and material_ids have the
\* same length, the entries of num_face_vertices add up to the number of
\* indices, and under triangulation every entry is 3.  The code does not keep
\* the sum for a polygon of 256 corners, whose count is stored in 8 bits.
C18_MeshConsistent == \A i \in 1..Len(shapes) : MeshConsistent(shapes[i].mesh)

(***************************************************************************)
(* Properties of the two entries of LoadObj and of the mtllib directive.   *)
(***************************************************************************)
\* C11: the file-based LoadObj returns false exactly when the file cannot be
\* opened, and then err holds the message, attrib and shapes are empty and
\* materials is as it was; once the lines are being read, whatever they are,
\* the only way out is the return of true.  The code does not keep the last
\* part: a t line whose count, read behind the terminator of the line, is
\* below zero leaves LoadObj by the exception of resize().
C11_ReturnValue ==
    [][/\ pc = "opening" =>
            IF inStream.state = "fail"
            THEN /\ pc' = "failed"
                 /\ err' = <<CannotOpen>>
                 /\ attrib' = [vertices |-> <<>>, normals |-> <<>>, texcoords |-> <<>>]
                 /\ shapes' = <<>>
                 /\ materials' = materials
            ELSE pc' = "reading"
       /\ pc = "reading" => pc' \in {"reading", "done"}]_vars

\* candidate f resolves with the reader LoadObj was given
Resolves(f) ==
    IF readMatFn = "file" THEN (m_mtlBaseDir \o f) \in DOMAIN fsys
    ELSE m_inStream.state /= "fail"

\* the first candidate that resolves, 0 when none does
FirstResolved(files) ==
    IF \E k \in 1..Len(files) : Resolves(files[k])
    THEN CHOOSE k \in 1..Len(files) :
             Resolves(files[k]) /\ \A j \in 1..(k - 1) : ~Resolves(files[j])
    ELSE 0

\* what the reader's failure on one candidate adds to err
Failure == IF readMatFn = "file" THEN WarnNotFound ELSE WarnStream

\* the library candidate f stands for
LibraryOf(f) ==
    IF readMatFn = "file" THEN fsys[m_mtlBaseDir \o f]
    ELSE IF m_inStream.state = "good" THEN m_inStream.lines ELSE <<>>

\* the effect of a mtllib line with candidates `files`, the first k - 1 of
\* which fail and the k-th resolves (k = 0: all fail)
OneLibrary(files, k) ==
    IF k = 0
    THEN /\ materials' = materials
         /\ material_map' = material_map
         /\ err' = err \o [j \in 1..Len(files) |-> Failure] \o <<WarnFailed>>
    ELSE /\ materials' = LoadMtl(material_map, materials, LibraryOf(files[k])).materials
         /\ material_map' = LoadMtl(material_map, materials, LibraryOf(files[k])).material_map
         /\ err' = err \o [j \in 1..(k - 1) |-> Failure]
                      \o LoadMtl(material_map, materials, LibraryOf(files[k])).warning

\* C12: a mtllib line with candidates f1 .. fn and a reader given tries them
\* in order and stops at the first that resolves: only that library adds
\* materials, err receives the failure of each candidate tried before it, and
\* the final warning is added exactly when all of them failed.
C12_FirstLibrary ==
    [][(MtllibStep /\ readMatFn /= "null" /\ Candidates(linebuf') /= <<>>) =>
          OneLibrary(Candidates(linebuf'), FirstResolved(Candidates(linebuf')))]_vars

\* a mtllib line with two libraries that both resolve was handled after one
\* whose first candidate failed
C12_Witness ==
    /\ pc = "reading" /\ nlines > 1 /\ ObjDirective(linebuf) = "mtllib"
    /\ readMatFn = "file"
    /\ Len(Candidates(linebuf)) = 2
    /\ \A k \in 1..2 : Resolves(Candidates(linebuf)[k])
    /\ err = <<WarnNotFound>>
    /\ <<"c">> \in DOMAIN material_map

(***************************************************************************)
(* Properties of the records LoadMtl appends.                              *)
(***************************************************************************)
\* the lines of the j-th record of the library read: from its newmtl line to
\* the line before the next newmtl line, or to the end
RecordLines(j) ==
    SubSeq(consumed, Nth(MtlLinesOf("newmtl"), j),
           IF j < Cardinality(MtlLinesOf("newmtl"))
           THEN Nth(MtlLinesOf("newmtl"), j + 1) - 1
           ELSE Len(consumed))

\* the record a library made of these lines alone gives
Alone(lines) == LoadMtl(EmptyMap, <<>>, lines).materials[1]

\* materials is what the caller had followed by n records
Appended(n) ==
    /\ Len(materials) >= n
    /\ SubSeq(materials, 1, Len(materials) - n) \in InitialMaterials

\* record j of the n appended ones
AppendedRecord(n, j) == materials[Len(materials) - n + j]

\* C13: LoadMtl on a library with k >= 1 newmtl lines appends k records, in
\* order, each one equal to what its own lines give on a fresh record; on a
\* library without newmtl it appends one record with an empty name.  The code
\* does not keep this: InitMaterial leaves the texture options of the
\* previous record in place.
C13_Records ==
    pc = "mtl_done" =>
        IF MtlLinesOf("newmtl") = {}
        THEN Appended(1) /\ AppendedRecord(1, 1).name = <<>>
        ELSE /\ Appended(Cardinality(MtlLinesOf("newmtl")))
             /\ \A j \in 1..Cardinality(MtlLinesOf("newmtl")) :
                    AppendedRecord(Cardinality(MtlLinesOf("newmtl")), j) = Alone(RecordLines(j))

\* every entry of the name table points at a record of that name
TableSound ==
    \A n \in DOMAIN material_map :
        /\ 0 <= material_map[n] /\ material_map[n] < Len(materials)
        /\ materials[material_map[n] + 1].name = n

\* C14: no step changes a record that is in materials or an entry that is in
\* the name table, and every entry of the table points at a record of its name.
C14_AppendOnly ==
    [][/\ Len(materials') >= Len(materials)
       /\ SubSeq(materials', 1, Len(materials)) = materials
       /\ \A n \in DOMAIN material_map :
              n \in DOMAIN material_map' /\ material_map'[n] = material_map[n]
       /\ TableSound']_vars

\* a name was defined again: the table still points at its first record
C14_Witness ==
    \E n \in DOMAIN material_map :
        /\ n /= <<>>
        /\ \E i \in (material_map[n] + 2)..Len(materials) : materials[i].name = n
        /\ materials[material_map[n] + 1].name = n

(***************************************************************************)
(* Properties of texture directives.                                       *)
(***************************************************************************)
\* the dash-flags and the number of arguments each takes
FlagArity ==
    (<<"-", "b", "l", "e", "n", "d", "u">> :> 1) @@
    (<<"-", "b", "l", "e", "n", "d", "v">> :> 1) @@
    (<<"-", "c", "l", "a", "m", "p">> :> 1) @@
    (<<"-", "b", "o", "o", "s", "t">> :> 1) @@
    (<<"-", "b", "m">> :> 1) @@
    (<<"-", "o">> :> 3) @@
    (<<"-", "s">> :> 3) @@
    (<<"-", "t">> :> 3) @@
    (<<"-", "t", "y", "p", "e">> :> 1) @@
    (<<"-", "i", "m", "f", "c", "h", "a", "n">> :> 1) @@
    (<<"-", "m", "m">> :> 2)

\* the first word from position i on that is neither a flag nor an argument
\* of a flag, <<>> when there is none
RECURSIVE FirstName(_, _)
FirstName(w, i) ==
    IF i > Len(w) THEN <<>>
    ELSE IF w[i] \in DOMAIN FlagArity THEN FirstName(w, i + 1 + FlagArity[w[i]])
    ELSE w[i]

\* the line just handled is a texture directive that names a texture
TextureLineRead ==
    /\ pc = "mtl_reading" /\ nlines > 0 /\ MtlDirective(linebuf) = "texture"
    /\ FirstName(Words(linebuf, 1), 2) /= <<>>

\* the texture name the directive of the line just handled stores into
StoredName ==
    mtl.material[TextureDirectives[TextureIndex(linebuf, FirstToken(linebuf))][3]]

\* C19: the texture name a texture directive stores is the first word of its
\* arguments that is neither a flag nor an argument of a flag.  The code does
\* not keep this: every further such word replaces the name.
C19_FirstNameStored == TextureLineRead => StoredName = FirstName(Words(linebuf, 1), 2)

(***************************************************************************)
(* Properties of the line reader.                                          *)
(***************************************************************************)
\* the lines a finished call was given are `lines`
LinesHandled(lines) ==
    /\ consumed = lines
    /\ pc = "mtl_done" => materials = LoadMtl(EmptyMap, <<>>, lines).materials

\* C20: when the text read is made of lines ended by LF, by CR LF or by a
\* bare CR, the last one with or without terminator, the handlers are given
\* exactly those lines, whatever the terminator.
C20_SameLines ==
    pc \in {"done", "mtl_done"} =>
        \A L \in {ObjTextLines, MtlTextLines} : \A l \in LineSeqs(L) :
            \A T \in Terminators : \A f \in BOOLEAN :
                (Proper(l, f) /\ inStream.text = Join(l, T, f)) => LinesHandled(l)

\* a text of three lines ended by bare CR, the last one without terminator,
\* has been read to its end
C20_Witness ==
    /\ pc = "done"
    /\ Len(consumed) = 3
    /\ \E i \in 1..Len(inStream.text) : inStream.text[i] = CR
    /\ \A i \in 1..Len(inStream.text) : inStream.text[i] /= LF
    /\ inStream.text[Len(inStream.text)] /= CR


(***************************************************************************)
(* The number scanner and the cursor of parseReal, over the lines of       *)
(* SpecReal.                                                               *)
(***************************************************************************)
\* the lengths of the prefixes of w that are numbers
NumberPrefixes(w) == {k \in 1..Len(w) : ValidNumber(SubSeq(w, 1, k))}

\* the value of the longest prefix of w that is a number, 0.0 when a digit
\* does not follow the optional sign
PrefixValue(w) ==
    IF NumberPrefixes(w) = {} THEN ZeroReal
    ELSE Scanned(SubSeq(w, 1, CHOOSE k \in NumberPrefixes(w) :
                                  \A j \in NumberPrefixes(w) : j <= k))

\* C23: tryParseDouble gives the value of the longest prefix of the token that
\* is a number (optional sign, digits, optional fraction, optional exponent
\* with digits) whenever a digit follows the optional sign, and the default
\* only otherwise; digits followed by an exponent marker without exponent
\* digits give the value before the marker.  The code rejects such a token:
\* `v 1e 5 -2.5` gives x = 0.0.
C23_LongestPrefix == ComponentsBy(PrefixValue)

\* the first position from i on whose character is in S; the end of a C
\* string counts as a character of S
FirstIn(s, i, S) ==
    CHOOSE j \in i..(Len(s) + 1) :
        /\ j = Len(s) + 1 \/ s[j] \in S
        /\ \A k \in i..(j - 1) : s[k] \notin S

\* where C24 puts the cursor of a call that starts at i: on the first space,
\* tab, CR or end of string at or after the first non-blank character
CursorAfter(s, i) ==
    FirstIn(s, FirstIn(s, i, {c \in {s[k] : k \in 1..Len(s)} : c \notin Blank}), Blank \cup {CR})

\* the cursor after k calls of parseReal that start at i
RECURSIVE RealCalls(_, _, _)
RealCalls(s, i, k) ==
    IF k = 0 THEN i ELSE parseReal(s, RealCalls(s, i, k - 1), ZeroReal).token

\* where k words from position `from` on end: behind the k-th word, and at the
\* end of the line when there are fewer
BehindWord(s, from, k) ==
    IF k <= Cardinality(WordStarts(s, from))
    THEN WordEnd(s, Nth(WordStarts(s, from), k)) + 1
    ELSE Len(s) + 1

\* C24: on the line being handled, a parseReal call from any cursor position
\* leaves the cursor on the first space, tab, CR or end of string at or after
\* the first non-blank character, whether or not the token is a number; k
\* calls leave it behind the k-th word from where the first started; a call at
\* the end of the line returns the default and leaves the cursor there.
C24_CursorAtTokenEnd ==
    pc = "reading" =>
        /\ \A i \in 1..(Len(linebuf) + 1) :
               parseReal(linebuf, i, ZeroReal).token = CursorAfter(linebuf, i)
        /\ \A i \in 1..(Len(linebuf) + 1) :
               \A k \in 1..4 : RealCalls(linebuf, i, k) = BehindWord(linebuf, i, k)
        /\ parseReal(linebuf, Len(linebuf) + 1, OneReal)
               = [val |-> OneReal, token |-> Len(linebuf) + 1]

\* a v line was read whose first word the scanner rejects: the cursor went to
\* the end of that word all the same and the second word gave y
C24_Witness ==
    /\ pc = "reading" /\ Len(consumed) \in LinesOf("v")
    /\ Len(Arguments(linebuf, 1)) >= 2
    /\ ~tryParseDouble(Arguments(linebuf, 1)[1], 1, Len(Arguments(linebuf, 1)[1]) + 1).ok
    /\ parseReal(linebuf, FirstToken(linebuf) + 2, ZeroReal).token
           = BehindWord(linebuf, FirstToken(linebuf) + 2, 1)
    /\ LastOf(v, 3)[2] = Scanned(Arguments(linebuf, 1)[2])
    /\ LastOf(v, 3)[2] /= ZeroReal

(***************************************************************************)
(* The faces held by a LoadObj call, from the f line to the output.        *)
(***************************************************************************)
IsPrefix(a, b) == Len(a) <= Len(b) /\ SubSeq(b, 1, Len(a)) = a

\* the indices of the shapes emitted so far, in order
RECURSIVE EmittedIndices(_, _)
EmittedIndices(shs, i) ==
    IF i > Len(shs) THEN <<>> ELSE shs[i].mesh.indices \o EmittedIndices(shs, i + 1)

\* the indices of every face read so far in the order of the f lines: those
\* emitted, those in the open shape and those still pending; once LoadObj has
\* returned, those emitted
HeldIndices ==
    IF pc = "done" THEN EmittedIndices(shapes, 1)
    ELSE EmittedIndices(shapes, 1) \o shape.mesh.indices \o IndicesOfAll(faceGroup, 1)

\* C25: no face is lost or reordered between the f line and the output: no
\* step, with usemtl, g and o lines between the f lines, takes away or moves a
\* face read before it, so that the faces emitted at the return are those of
\* the f lines in input order.  The code loses the faces a usemtl line wrote to
\* the open shape when a g or o line follows with no f line in between.
C25_NoFaceLost == [][IsPrefix(HeldIndices, HeldIndices')]_vars

\* C28: the material id of a face is the one the most recent usemtl line
\* before its f line resolved to at that moment, -1 before any usemtl and for
\* a name not defined then.  Step by step: the id changes at usemtl lines only,
\* to what the name table gives then, and not while faces are pending; every
\* step that writes pending faces writes them under the current id behind the
\* ids already written; ids written stay as they are, in the open shape and in
\* the shapes emitted; g, o and mtllib lines leave the id alone, and a mtllib
\* line leaves every face as it is.
C28_FaceMaterial ==
    [][/\ material' = IF UsemtlStep THEN ResolvedId(linebuf') ELSE material
       /\ material' /= material => faceGroup' = <<>>
       /\ IsPrefix(shapes, shapes')
       /\ Flush => Received.material_ids =
                       shape.mesh.material_ids \o [j \in 1..Records(faceGroup, 1) |-> material]
       /\ (~Flush /\ Len(shapes') > Len(shapes)) =>
              shapes'[Len(shapes')].mesh.material_ids = shape.mesh.material_ids
       /\ (~Flush /\ shape' /= EmptyShape) => shape' = shape
       /\ MtllibStep => UNCHANGED <<faceGroup, shape, shapes>>]_vars

\* LoadObj has returned a shape of two faces: the first, read before the
\* library was loaded, is bound to -1 and the second, read behind the usemtl
\* line that follows the library, to the id of the material then defined
C28_Witness ==
    /\ pc = "done"
    /\ material >= 0
    /\ \E i \in 1..Len(shapes) : shapes[i].mesh.material_ids = <<0 - 1, material>>

\* C26: every read of LoadObj stays inside the string it reads: the cursor of
\* a directive never stands beyond the terminator of the line.  The t
\* directive puts it one byte beyond, and reads the counts and the values of
\* the tag from there.
C26_CursorInLine ==
    (pc = "reading" /\ nlines > 0 /\ ObjDirective(linebuf) = "t") =>
        TagCursor(linebuf) <= Len(linebuf) + 1

(***************************************************************************)
(* Keywords, names and trailing blanks, over the streams of SpecName.      *)
(***************************************************************************)
\* s without the blanks and tabs at its end
Trimmed(s) ==
    SubSeq(s, 1, CHOOSE n \in 0..Len(s) :
                     /\ n = 0 \/ s[n] \notin Blank
                     /\ \A k \in (n + 1)..Len(s) : s[k] \in Blank)

\* the first word of a line, <<>> for a line of blanks
FirstWord(s) == IF Words(s, 1) = <<>> THEN <<>> ELSE Words(s, 1)[1]

\* the text of a line behind its first word and the one separator after it
AfterKeyword(s) == Rest(s, FirstToken(s) + Len(FirstWord(s)) + 1)

\* a line has just been handled
LineRead == pc = "reading" /\ nlines > 0

\* C21: trailing blanks and tabs are removed before a directive of LoadObj is
\* handled: the name an o line with a name gives and the material a usemtl line
\* selects are those of the line without them.  LoadObj does not remove them: `usemtl a `
\* looks up the name "a " and `o t u` followed by a tab gives a name that ends
\* in the tab.
C21_TrailingBlanksRemoved ==
    (LineRead /\ Len(Words(linebuf, 1)) >= 2) =>
        /\ FirstWord(linebuf) = <<"o">> => name = AfterKeyword(Trimmed(linebuf))
        /\ FirstWord(linebuf) = <<"u", "s", "e", "m", "t", "l">> =>
               material = LookupMaterial(material_map, AfterKeyword(Trimmed(linebuf)))

\* C22: a keyword is recognised at the first non-blank position when a space,
\* a tab or the end of the line follows it: a line whose first word is g or o,
\* the bare keyword included, emits the pending faces and opens a new shape,
\* and only the lines whose first word is v add to the positions, three floats
\* each.  The code wants a space or a tab behind the keyword and passes over a
\* bare g or o.
C22_KeywordRecognised ==
    /\ LineRead =>
          (FirstWord(linebuf) \in {<<"g">>, <<"o">>} => faceGroup = <<>> /\ shape = EmptyShape)
    /\ pc = "reading" =>
          Len(v) = 3 * Cardinality({i \in 1..Len(consumed) : FirstWord(consumed[i]) = <<"v">>})

\* the step that handles a line the chain of tests takes for directive d
StepOf(d) == pc = "reading" /\ nlines' = nlines + 1 /\ ObjDirective(linebuf') = d

\* C27: a shape carries the name given by the most recent g or o line before
\* its faces, the empty name when there is none.  Step by step: a g line sets
\* the name to the first word behind the keyword, to the empty name when only
\* blanks follow; an o line sets it to the whole rest of the line; no other
\* line changes it; a shape is emitted under the current name, faces or none
\* having been written to it by usemtl lines before, and an open shape that
\* holds faces carries the current name.
C27_ShapeName ==
    [][/\ StepOf("g") =>
            name' = IF Len(Words(linebuf', 1)) >= 2 THEN Words(linebuf', 1)[2] ELSE <<>>
       /\ StepOf("o") => name' = Rest(linebuf', FirstToken(linebuf') + 2)
       /\ ~(StepOf("g") \/ StepOf("o")) => name' = name
       /\ Len(shapes') > Len(shapes) => shapes'[Len(shapes')].name = name
       /\ shape'.mesh.indices /= <<>> => shape'.name = name']_vars

\* LoadObj has returned a shape named by the first name of `g a b c`; its
\* face was written to it by the usemtl line that followed
C27_Witness ==
    /\ pc = "done"
    /\ material >= 0
    /\ \E i \in 1..Len(shapes) :
           /\ shapes[i].name = <<"a">>
           /\ shapes[i].mesh.material_ids = <<0 - 1>>

(***************************************************************************)
(* Calls on output objects that an earlier call has filled.                *)
(***************************************************************************)
\* the materials and the name table the mtllib lines among `lines` give to a
\* call whose materials vector was empty when it was entered
RECURSIVE FreshLoad(_, _, _)
FreshLoad(lines, i, env) ==
    IF i > Len(lines) THEN env
    ELSE FreshLoad(lines, i + 1,
                   IF ObjDirective(StripEol(lines[i])) = "mtllib"
                   THEN Mtllib(StripEol(lines[i]), env, <<>>).env
                   ELSE env)

FreshMaterials ==
    FreshLoad(consumed, 1, [materials |-> <<>>, material_map |-> EmptyMap,
                            m_inStream |-> FailedStream]).materials

\* C29: the result of a call of the file-based LoadObj depends on the file
\* only and not on what attrib, shapes and materials held before: at the
\* return materials holds the records of the file's libraries and nothing
\* else, and every material id is -1 or an index into these.  The code
\* empties attrib and shapes and leaves materials as the earlier call filled
\* it: the records are appended behind those and the ids count from there.
C29_SameAsFresh ==
    pc = "done" =>
        /\ materials = FreshMaterials
        /\ \A i \in 1..Len(shapes) :
               \A j \in 1..Len(shapes[i].mesh.material_ids) :
                   AbsentOrBelow(shapes[i].mesh.material_ids[j], Len(FreshMaterials))

(***************************************************************************)
(* Termination: every loop moves its cursor forward.                       *)
(***************************************************************************)
\* the positions of s on which a loop inside a line goes on
Inside(s) == {i \in 1..Len(s) : ~IS_NEW_LINE(s[i])}

\* the line the stream offers is taken by a line step of the call
Taken(line) ==
    /\ nlines < limit
    /\ pc = "reading" => ObjDirective(StripEol(line)) \in {"f", "g"}
    /\ pc = "mtl_reading" => MtlDirective(MtlLinebuf(line)) = "texture"

\* C30: LoadObj and LoadMtl terminate.  Every call of safeGetline made while
\* the stream is not at its end takes at least one character, and every line
\* offered is taken; on the line being handled, from every cursor position on
\* which a loop goes on, one turn of the loop of the f directive, of the names
\* loop of the g directive and of the loop of a texture directive leaves the
\* cursor further on; and every call returns.
C30_Terminates ==
    /\ [][nlines' = nlines + 1 => inStream'.pos > inStream.pos]_vars
    /\ [](\A line \in Offered : Taken(line))
    /\ [](\A i \in Inside(linebuf) :
              /\ FaceTurn(linebuf, [token |-> i, face |-> <<>>], 1, 1, 1).token > i
              /\ NamesTurn(linebuf, i, <<>>).token > i
              /\ TexOptionStep(linebuf, [token |-> i, texopt |-> DefaultTexOpt(FALSE),
                                         texture_name |-> <<>>,
                                         found_texname |-> FALSE]).token > i)
    /\ <>(pc \in {"done", "mtl_done"})

\* LoadObj has returned from a text of two lines, the first an f line whose
\* references are stray '/' characters, the second a g line of separators
C30_Witness ==
    /\ pc = "done"
    /\ consumed = << <<"f", SP, "/", SP, "/", "/", "1">>, <<"g", SP, TAB, SP>> >>
    /\ ~triangulate
    /\ Len(shapes) = 1
    /\ Len(shapes[1].mesh.indices) = 2
=============================================================================
